---- MODULE Spec2Model ----
(***************************************************************************)
(* The character-sheet engine of the wizard builder                        *)
(* (wizard_agent/tools/character_sheet.py, wizard_agent/models): the       *)
(* session-stored sheet document, the mutators that transform it, the step *)
(* sequencer check_next_step and the final validator.                      *)
(*                                                                         *)
(* Conventions.  A Python Optional is a sequence of length 0 (None) or 1.  *)
(* A dict is a function on its keys.  A list whose order is the iteration  *)
(* order of a Python set (list(set(...))) is a multiset (Bags).  Every     *)
(* tool is an operator from the stored state and the arguments to the      *)
(* returned envelope together with the stored state it leaves; the action  *)
(* of the tool stores that state.                                          *)
(***************************************************************************)
EXTENDS Integers, Sequences, FiniteSets, Bags, TLC

VARIABLES
  state,        \* tool_context.state.get(CHARACTER_SHEET_KEY) of the session
  other_state,  \* the same key in the state of another session's context
  lookup,       \* the last call of a look-up tool and what it answered
  in_flight,    \* per concurrent call: the mutator between its load and its save
  control       \* the agent that holds control of the conversation, and its calls

vars == <<state, other_state, lookup, in_flight, control>>

---------------------------------------------------------------------------
(* Optional values and small helpers *)

None == <<>>
Some(v) == <<v>>

\* Python truthiness of a str | None value: None and "" are falsy.
Truthy(o) == o # None /\ o[1] # ""

Max(a, b) == IF a >= b THEN a ELSE b

Range(s) == {s[i] : i \in DOMAIN s}

EmptyDict == [k \in {} |-> 0]

\* dict.get(key, default)
DictGet(d, k, default) == IF k \in DOMAIN d THEN d[k] ELSE default

\* list(set(xs)): one entry per distinct element, in no specified order.
ListOfSet(elems) == SetToBag(elems)

---------------------------------------------------------------------------
(* Strings.  A str whose characters are read (by lower(), strip(), the     *)
(* pattern of the dice roller and the scorer of the name resolver) is the   *)
(* sequence of its code points.  The names the tools are called with or     *)
(* hold in their records are TLA+ strings; StringChars lists the characters *)
(* of each, in the spelling given, in lower case and in upper case.         *)

\* The printable ASCII characters in the order of their code points, the
\* first being the space, 32; the place of the grave accent, 96, which no
\* string here holds, is left empty.
Ascii ==
  << " ", "!", "\"", "#", "$", "%", "&", "'", "(", ")", "*", "+", ",", "-",
     ".", "/", "0", "1", "2", "3", "4", "5", "6", "7", "8", "9", ":", ";",
     "<", "=", ">", "?", "@", "A", "B", "C", "D", "E", "F", "G", "H", "I",
     "J", "K", "L", "M", "N", "O", "P", "Q", "R", "S", "T", "U", "V", "W",
     "X", "Y", "Z", "[", "\\", "]", "^", "_", "", "a", "b", "c", "d", "e",
     "f", "g", "h", "i", "j", "k", "l", "m", "n", "o", "p", "q", "r", "s",
     "t", "u", "v", "w", "x", "y", "z", "{", "|", "}", "~" >>

\* ord(c) of a printable ASCII character
Ord(c) == 31 + CHOOSE i \in DOMAIN Ascii : Ascii[i] = c

\* The code points of the characters of a string of printable ASCII
\* characters.  A str is handled as the sequence of its code points.
Codes(chars) == [i \in DOMAIN chars |-> Ord(chars[i])]

\* A set of code points is tabled as runs <<first, last, step>>: c is in the
\* run when first <= c <= last and c - first is a multiple of step.
InRun(c, run) == run[1] <= c /\ c <= run[2] /\ (c - run[1]) % run[3] = 0

InRuns(c, runs) == \E i \in DOMAIN runs : InRun(c, runs[i])

\* The characters str.strip() and str.split() take for whitespace
\* (str.isspace(), Unicode 15.0).
Whitespace ==
  {133, 160, 5760, 8239, 8287, 12288}
    \cup (9..13)
    \cup (28..32)
    \cup (8192..8202)
    \cup (8232..8233)

\* The code points of the digit zero of every Unicode decimal digit range
\* (category Nd, Unicode 15.0); the nine digits after a zero follow it.
DigitZeros ==
  { 48, 1632, 1776, 1984, 2406, 2534, 2662, 2790, 2918, 3046, 3174, 3302,
    3430, 3558, 3664, 3792, 3872, 4160, 4240, 6112, 6160, 6470, 6608, 6784,
    6800, 6992, 7088, 7232, 7248, 42528, 43216, 43264, 43472, 43504, 43600,
    44016, 65296, 66720, 68912, 69734, 69872, 69942, 70096, 70384, 70736,
    70864, 71248, 71360, 71472, 71904, 72016, 72784, 73040, 73120, 73552,
    92768, 92864, 93008, 120782, 120792, 120802, 120812, 120822, 123200,
    123632, 124144, 125264, 130032 }

\* The characters \d of a str pattern matches and int() reads.
Digits == UNION {z..(z + 9) : z \in DigitZeros}

\* The letters with a lower-case form of one character, as runs
\* <<first, last, step, offset>>: the lower-case form of c is c + offset.
LowerRuns ==
  << <<65, 90, 1, 32>>, <<192, 214, 1, 32>>, <<216, 222, 1, 32>>,
     <<256, 302, 2, 1>>, <<306, 310, 2, 1>>, <<313, 327, 2, 1>>,
     <<330, 374, 2, 1>>, <<376, 376, 1, -121>>, <<377, 381, 2, 1>>,
     <<385, 385, 1, 210>>, <<386, 388, 2, 1>>, <<390, 390, 1, 206>>,
     <<391, 391, 1, 1>>, <<393, 394, 1, 205>>, <<395, 395, 1, 1>>,
     <<398, 398, 1, 79>>, <<399, 399, 1, 202>>, <<400, 400, 1, 203>>,
     <<401, 401, 1, 1>>, <<403, 403, 1, 205>>, <<404, 404, 1, 207>>,
     <<406, 406, 1, 211>>, <<407, 407, 1, 209>>, <<408, 408, 1, 1>>,
     <<412, 412, 1, 211>>, <<413, 413, 1, 213>>, <<415, 415, 1, 214>>,
     <<416, 420, 2, 1>>, <<422, 422, 1, 218>>, <<423, 423, 1, 1>>,
     <<425, 425, 1, 218>>, <<428, 428, 1, 1>>, <<430, 430, 1, 218>>,
     <<431, 431, 1, 1>>, <<433, 434, 1, 217>>, <<435, 437, 2, 1>>,
     <<439, 439, 1, 219>>, <<440, 440, 1, 1>>, <<444, 444, 1, 1>>,
     <<452, 452, 1, 2>>, <<453, 453, 1, 1>>, <<455, 455, 1, 2>>,
     <<456, 456, 1, 1>>, <<458, 458, 1, 2>>, <<459, 475, 2, 1>>,
     <<478, 494, 2, 1>>, <<497, 497, 1, 2>>, <<498, 500, 2, 1>>,
     <<502, 502, 1, -97>>, <<503, 503, 1, -56>>, <<504, 542, 2, 1>>,
     <<544, 544, 1, -130>>, <<546, 562, 2, 1>>, <<570, 570, 1, 10795>>,
     <<571, 571, 1, 1>>, <<573, 573, 1, -163>>, <<574, 574, 1, 10792>>,
     <<577, 577, 1, 1>>, <<579, 579, 1, -195>>, <<580, 580, 1, 69>>,
     <<581, 581, 1, 71>>, <<582, 590, 2, 1>>, <<880, 882, 2, 1>>,
     <<886, 886, 1, 1>>, <<895, 895, 1, 116>>, <<902, 902, 1, 38>>,
     <<904, 906, 1, 37>>, <<908, 908, 1, 64>>, <<910, 911, 1, 63>>,
     <<913, 929, 1, 32>>, <<931, 939, 1, 32>>, <<975, 975, 1, 8>>,
     <<984, 1006, 2, 1>>, <<1012, 1012, 1, -60>>, <<1015, 1015, 1, 1>>,
     <<1017, 1017, 1, -7>>, <<1018, 1018, 1, 1>>, <<1021, 1023, 1, -130>>,
     <<1024, 1039, 1, 80>>, <<1040, 1071, 1, 32>>, <<1120, 1152, 2, 1>>,
     <<1162, 1214, 2, 1>>, <<1216, 1216, 1, 15>>, <<1217, 1229, 2, 1>>,
     <<1232, 1326, 2, 1>>, <<1329, 1366, 1, 48>>, <<4256, 4293, 1, 7264>>,
     <<4295, 4295, 1, 7264>>, <<4301, 4301, 1, 7264>>,
     <<5024, 5103, 1, 38864>>, <<5104, 5109, 1, 8>>, <<7312, 7354, 1, -3008>>,
     <<7357, 7359, 1, -3008>>, <<7680, 7828, 2, 1>>, <<7838, 7838, 1, -7615>>,
     <<7840, 7934, 2, 1>>, <<7944, 7951, 1, -8>>, <<7960, 7965, 1, -8>>,
     <<7976, 7983, 1, -8>>, <<7992, 7999, 1, -8>>, <<8008, 8013, 1, -8>>,
     <<8025, 8031, 2, -8>>, <<8040, 8047, 1, -8>>, <<8072, 8079, 1, -8>>,
     <<8088, 8095, 1, -8>>, <<8104, 8111, 1, -8>>, <<8120, 8121, 1, -8>>,
     <<8122, 8123, 1, -74>>, <<8124, 8124, 1, -9>>, <<8136, 8139, 1, -86>>,
     <<8140, 8140, 1, -9>>, <<8152, 8153, 1, -8>>, <<8154, 8155, 1, -100>>,
     <<8168, 8169, 1, -8>>, <<8170, 8171, 1, -112>>, <<8172, 8172, 1, -7>>,
     <<8184, 8185, 1, -128>>, <<8186, 8187, 1, -126>>, <<8188, 8188, 1, -9>>,
     <<8486, 8486, 1, -7517>>, <<8490, 8490, 1, -8383>>,
     <<8491, 8491, 1, -8262>>, <<8498, 8498, 1, 28>>, <<8544, 8559, 1, 16>>,
     <<8579, 8579, 1, 1>>, <<9398, 9423, 1, 26>>, <<11264, 11311, 1, 48>>,
     <<11360, 11360, 1, 1>>, <<11362, 11362, 1, -10743>>,
     <<11363, 11363, 1, -3814>>, <<11364, 11364, 1, -10727>>,
     <<11367, 11371, 2, 1>>, <<11373, 11373, 1, -10780>>,
     <<11374, 11374, 1, -10749>>, <<11375, 11375, 1, -10783>>,
     <<11376, 11376, 1, -10782>>, <<11378, 11378, 1, 1>>,
     <<11381, 11381, 1, 1>>, <<11390, 11391, 1, -10815>>,
     <<11392, 11490, 2, 1>>, <<11499, 11501, 2, 1>>, <<11506, 11506, 1, 1>>,
     <<42560, 42604, 2, 1>>, <<42624, 42650, 2, 1>>, <<42786, 42798, 2, 1>>,
     <<42802, 42862, 2, 1>>, <<42873, 42875, 2, 1>>,
     <<42877, 42877, 1, -35332>>, <<42878, 42886, 2, 1>>,
     <<42891, 42891, 1, 1>>, <<42893, 42893, 1, -42280>>,
     <<42896, 42898, 2, 1>>, <<42902, 42920, 2, 1>>,
     <<42922, 42922, 1, -42308>>, <<42923, 42923, 1, -42319>>,
     <<42924, 42924, 1, -42315>>, <<42925, 42925, 1, -42305>>,
     <<42926, 42926, 1, -42308>>, <<42928, 42928, 1, -42258>>,
     <<42929, 42929, 1, -42282>>, <<42930, 42930, 1, -42261>>,
     <<42931, 42931, 1, 928>>, <<42932, 42946, 2, 1>>,
     <<42948, 42948, 1, -48>>, <<42949, 42949, 1, -42307>>,
     <<42950, 42950, 1, -35384>>, <<42951, 42953, 2, 1>>,
     <<42960, 42960, 1, 1>>, <<42966, 42968, 2, 1>>, <<42997, 42997, 1, 1>>,
     <<65313, 65338, 1, 32>>, <<66560, 66599, 1, 40>>,
     <<66736, 66771, 1, 40>>, <<66928, 66938, 1, 39>>,
     <<66940, 66954, 1, 39>>, <<66956, 66962, 1, 39>>,
     <<66964, 66965, 1, 39>>, <<68736, 68786, 1, 64>>,
     <<71840, 71871, 1, 32>>, <<93760, 93791, 1, 32>>,
     <<125184, 125217, 1, 34>> >>

\* The cased characters (Lowercase, Uppercase or titlecase letters).
CasedRuns ==
  << <<65, 90, 1>>, <<97, 122, 1>>, <<170, 170, 1>>, <<181, 181, 1>>,
     <<186, 186, 1>>, <<192, 214, 1>>, <<216, 246, 1>>, <<248, 442, 1>>,
     <<444, 447, 1>>, <<452, 659, 1>>, <<661, 696, 1>>, <<704, 705, 1>>,
     <<736, 740, 1>>, <<837, 837, 1>>, <<880, 883, 1>>, <<886, 887, 1>>,
     <<890, 893, 1>>, <<895, 895, 1>>, <<902, 904, 2>>, <<905, 906, 1>>,
     <<908, 910, 2>>, <<911, 929, 1>>, <<931, 1013, 1>>, <<1015, 1153, 1>>,
     <<1162, 1327, 1>>, <<1329, 1366, 1>>, <<1376, 1416, 1>>,
     <<4256, 4293, 1>>, <<4295, 4295, 1>>, <<4301, 4301, 1>>,
     <<4304, 4346, 1>>, <<4348, 4351, 1>>, <<5024, 5109, 1>>,
     <<5112, 5117, 1>>, <<7296, 7304, 1>>, <<7312, 7354, 1>>,
     <<7357, 7359, 1>>, <<7424, 7615, 1>>, <<7680, 7957, 1>>,
     <<7960, 7965, 1>>, <<7968, 8005, 1>>, <<8008, 8013, 1>>,
     <<8016, 8023, 1>>, <<8025, 8031, 2>>, <<8032, 8061, 1>>,
     <<8064, 8116, 1>>, <<8118, 8124, 1>>, <<8126, 8126, 1>>,
     <<8130, 8132, 1>>, <<8134, 8140, 1>>, <<8144, 8147, 1>>,
     <<8150, 8155, 1>>, <<8160, 8172, 1>>, <<8178, 8180, 1>>,
     <<8182, 8188, 1>>, <<8305, 8305, 1>>, <<8319, 8319, 1>>,
     <<8336, 8348, 1>>, <<8450, 8450, 1>>, <<8455, 8455, 1>>,
     <<8458, 8467, 1>>, <<8469, 8469, 1>>, <<8473, 8477, 1>>,
     <<8484, 8490, 2>>, <<8491, 8493, 1>>, <<8495, 8500, 1>>,
     <<8505, 8505, 1>>, <<8508, 8511, 1>>, <<8517, 8521, 1>>,
     <<8526, 8526, 1>>, <<8544, 8575, 1>>, <<8579, 8580, 1>>,
     <<9398, 9449, 1>>, <<11264, 11492, 1>>, <<11499, 11502, 1>>,
     <<11506, 11507, 1>>, <<11520, 11557, 1>>, <<11559, 11559, 1>>,
     <<11565, 11565, 1>>, <<42560, 42605, 1>>, <<42624, 42653, 1>>,
     <<42786, 42887, 1>>, <<42891, 42894, 1>>, <<42896, 42954, 1>>,
     <<42960, 42961, 1>>, <<42963, 42965, 2>>, <<42966, 42969, 1>>,
     <<42994, 42998, 1>>, <<43000, 43002, 1>>, <<43824, 43866, 1>>,
     <<43868, 43881, 1>>, <<43888, 43967, 1>>, <<64256, 64262, 1>>,
     <<64275, 64279, 1>>, <<65313, 65338, 1>>, <<65345, 65370, 1>>,
     <<66560, 66639, 1>>, <<66736, 66771, 1>>, <<66776, 66811, 1>>,
     <<66928, 66938, 1>>, <<66940, 66954, 1>>, <<66956, 66962, 1>>,
     <<66964, 66965, 1>>, <<66967, 66977, 1>>, <<66979, 66993, 1>>,
     <<66995, 67001, 1>>, <<67003, 67004, 1>>, <<67456, 67456, 1>>,
     <<67459, 67461, 1>>, <<67463, 67504, 1>>, <<67506, 67514, 1>>,
     <<68736, 68786, 1>>, <<68800, 68850, 1>>, <<71840, 71903, 1>>,
     <<93760, 93823, 1>>, <<119808, 119892, 1>>, <<119894, 119964, 1>>,
     <<119966, 119967, 1>>, <<119970, 119970, 1>>, <<119973, 119974, 1>>,
     <<119977, 119980, 1>>, <<119982, 119993, 1>>, <<119995, 119997, 2>>,
     <<119998, 120003, 1>>, <<120005, 120069, 1>>, <<120071, 120074, 1>>,
     <<120077, 120084, 1>>, <<120086, 120092, 1>>, <<120094, 120121, 1>>,
     <<120123, 120126, 1>>, <<120128, 120132, 1>>, <<120134, 120134, 1>>,
     <<120138, 120144, 1>>, <<120146, 120485, 1>>, <<120488, 120512, 1>>,
     <<120514, 120538, 1>>, <<120540, 120570, 1>>, <<120572, 120596, 1>>,
     <<120598, 120628, 1>>, <<120630, 120654, 1>>, <<120656, 120686, 1>>,
     <<120688, 120712, 1>>, <<120714, 120744, 1>>, <<120746, 120770, 1>>,
     <<120772, 120779, 1>>, <<122624, 122633, 1>>, <<122635, 122654, 1>>,
     <<122661, 122666, 1>>, <<122928, 122989, 1>>, <<125184, 125251, 1>>,
     <<127280, 127305, 1>>, <<127312, 127337, 1>>, <<127344, 127369, 1>> >>

\* The case-ignorable characters (marks, modifiers and word-internal
\* punctuation).
CaseIgnorableRuns ==
  << <<39, 39, 1>>, <<46, 46, 1>>, <<58, 58, 1>>, <<94, 96, 2>>,
     <<168, 168, 1>>, <<173, 175, 2>>, <<180, 180, 1>>, <<183, 184, 1>>,
     <<688, 879, 1>>, <<884, 885, 1>>, <<890, 890, 1>>, <<900, 901, 1>>,
     <<903, 903, 1>>, <<1155, 1161, 1>>, <<1369, 1369, 1>>, <<1375, 1375, 1>>,
     <<1425, 1469, 1>>, <<1471, 1473, 2>>, <<1474, 1476, 2>>,
     <<1477, 1479, 2>>, <<1524, 1524, 1>>, <<1536, 1541, 1>>,
     <<1552, 1562, 1>>, <<1564, 1564, 1>>, <<1600, 1600, 1>>,
     <<1611, 1631, 1>>, <<1648, 1648, 1>>, <<1750, 1757, 1>>,
     <<1759, 1768, 1>>, <<1770, 1773, 1>>, <<1807, 1809, 2>>,
     <<1840, 1866, 1>>, <<1958, 1968, 1>>, <<2027, 2037, 1>>,
     <<2042, 2042, 1>>, <<2045, 2045, 1>>, <<2070, 2093, 1>>,
     <<2137, 2139, 1>>, <<2184, 2184, 1>>, <<2192, 2193, 1>>,
     <<2200, 2207, 1>>, <<2249, 2306, 1>>, <<2362, 2364, 2>>,
     <<2369, 2376, 1>>, <<2381, 2381, 1>>, <<2385, 2391, 1>>,
     <<2402, 2403, 1>>, <<2417, 2417, 1>>, <<2433, 2433, 1>>,
     <<2492, 2492, 1>>, <<2497, 2500, 1>>, <<2509, 2509, 1>>,
     <<2530, 2531, 1>>, <<2558, 2558, 1>>, <<2561, 2562, 1>>,
     <<2620, 2620, 1>>, <<2625, 2626, 1>>, <<2631, 2632, 1>>,
     <<2635, 2637, 1>>, <<2641, 2641, 1>>, <<2672, 2673, 1>>,
     <<2677, 2677, 1>>, <<2689, 2690, 1>>, <<2748, 2748, 1>>,
     <<2753, 2757, 1>>, <<2759, 2760, 1>>, <<2765, 2765, 1>>,
     <<2786, 2787, 1>>, <<2810, 2815, 1>>, <<2817, 2817, 1>>,
     <<2876, 2876, 1>>, <<2879, 2881, 2>>, <<2882, 2884, 1>>,
     <<2893, 2893, 1>>, <<2901, 2902, 1>>, <<2914, 2915, 1>>,
     <<2946, 2946, 1>>, <<3008, 3008, 1>>, <<3021, 3021, 1>>,
     <<3072, 3072, 1>>, <<3076, 3076, 1>>, <<3132, 3134, 2>>,
     <<3135, 3136, 1>>, <<3142, 3144, 1>>, <<3146, 3149, 1>>,
     <<3157, 3158, 1>>, <<3170, 3171, 1>>, <<3201, 3201, 1>>,
     <<3260, 3260, 1>>, <<3263, 3263, 1>>, <<3270, 3270, 1>>,
     <<3276, 3277, 1>>, <<3298, 3299, 1>>, <<3328, 3329, 1>>,
     <<3387, 3388, 1>>, <<3393, 3396, 1>>, <<3405, 3405, 1>>,
     <<3426, 3427, 1>>, <<3457, 3457, 1>>, <<3530, 3530, 1>>,
     <<3538, 3540, 1>>, <<3542, 3542, 1>>, <<3633, 3633, 1>>,
     <<3636, 3642, 1>>, <<3654, 3662, 1>>, <<3761, 3761, 1>>,
     <<3764, 3772, 1>>, <<3782, 3784, 2>>, <<3785, 3790, 1>>,
     <<3864, 3865, 1>>, <<3893, 3897, 2>>, <<3953, 3966, 1>>,
     <<3968, 3972, 1>>, <<3974, 3975, 1>>, <<3981, 3991, 1>>,
     <<3993, 4028, 1>>, <<4038, 4038, 1>>, <<4141, 4144, 1>>,
     <<4146, 4151, 1>>, <<4153, 4154, 1>>, <<4157, 4158, 1>>,
     <<4184, 4185, 1>>, <<4190, 4192, 1>>, <<4209, 4212, 1>>,
     <<4226, 4226, 1>>, <<4229, 4230, 1>>, <<4237, 4237, 1>>,
     <<4253, 4253, 1>>, <<4348, 4348, 1>>, <<4957, 4959, 1>>,
     <<5906, 5908, 1>>, <<5938, 5939, 1>>, <<5970, 5971, 1>>,
     <<6002, 6003, 1>>, <<6068, 6069, 1>>, <<6071, 6077, 1>>,
     <<6086, 6086, 1>>, <<6089, 6099, 1>>, <<6103, 6103, 1>>,
     <<6109, 6109, 1>>, <<6155, 6159, 1>>, <<6211, 6211, 1>>,
     <<6277, 6278, 1>>, <<6313, 6313, 1>>, <<6432, 6434, 1>>,
     <<6439, 6440, 1>>, <<6450, 6450, 1>>, <<6457, 6459, 1>>,
     <<6679, 6680, 1>>, <<6683, 6683, 1>>, <<6742, 6744, 2>>,
     <<6745, 6750, 1>>, <<6752, 6754, 2>>, <<6757, 6764, 1>>,
     <<6771, 6780, 1>>, <<6783, 6783, 1>>, <<6823, 6823, 1>>,
     <<6832, 6862, 1>>, <<6912, 6915, 1>>, <<6964, 6966, 2>>,
     <<6967, 6970, 1>>, <<6972, 6972, 1>>, <<6978, 6978, 1>>,
     <<7019, 7027, 1>>, <<7040, 7041, 1>>, <<7074, 7077, 1>>,
     <<7080, 7081, 1>>, <<7083, 7085, 1>>, <<7142, 7144, 2>>,
     <<7145, 7145, 1>>, <<7149, 7151, 2>>, <<7152, 7153, 1>>,
     <<7212, 7219, 1>>, <<7222, 7223, 1>>, <<7288, 7293, 1>>,
     <<7376, 7378, 1>>, <<7380, 7392, 1>>, <<7394, 7400, 1>>,
     <<7405, 7405, 1>>, <<7412, 7412, 1>>, <<7416, 7417, 1>>,
     <<7468, 7530, 1>>, <<7544, 7544, 1>>, <<7579, 7679, 1>>,
     <<8125, 8127, 2>>, <<8128, 8129, 1>>, <<8141, 8143, 1>>,
     <<8157, 8159, 1>>, <<8173, 8175, 1>>, <<8189, 8190, 1>>,
     <<8203, 8207, 1>>, <<8216, 8217, 1>>, <<8228, 8228, 1>>,
     <<8231, 8231, 1>>, <<8234, 8238, 1>>, <<8288, 8292, 1>>,
     <<8294, 8303, 1>>, <<8305, 8305, 1>>, <<8319, 8319, 1>>,
     <<8336, 8348, 1>>, <<8400, 8432, 1>>, <<11388, 11389, 1>>,
     <<11503, 11505, 1>>, <<11631, 11631, 1>>, <<11647, 11647, 1>>,
     <<11744, 11775, 1>>, <<11823, 11823, 1>>, <<12293, 12293, 1>>,
     <<12330, 12333, 1>>, <<12337, 12341, 1>>, <<12347, 12347, 1>>,
     <<12441, 12446, 1>>, <<12540, 12542, 1>>, <<40981, 40981, 1>>,
     <<42232, 42237, 1>>, <<42508, 42508, 1>>, <<42607, 42610, 1>>,
     <<42612, 42621, 1>>, <<42623, 42623, 1>>, <<42652, 42655, 1>>,
     <<42736, 42737, 1>>, <<42752, 42785, 1>>, <<42864, 42864, 1>>,
     <<42888, 42890, 1>>, <<42994, 42996, 1>>, <<43000, 43001, 1>>,
     <<43010, 43010, 1>>, <<43014, 43014, 1>>, <<43019, 43019, 1>>,
     <<43045, 43046, 1>>, <<43052, 43052, 1>>, <<43204, 43205, 1>>,
     <<43232, 43249, 1>>, <<43263, 43263, 1>>, <<43302, 43309, 1>>,
     <<43335, 43345, 1>>, <<43392, 43394, 1>>, <<43443, 43443, 1>>,
     <<43446, 43449, 1>>, <<43452, 43453, 1>>, <<43471, 43471, 1>>,
     <<43493, 43494, 1>>, <<43561, 43566, 1>>, <<43569, 43570, 1>>,
     <<43573, 43574, 1>>, <<43587, 43587, 1>>, <<43596, 43596, 1>>,
     <<43632, 43632, 1>>, <<43644, 43644, 1>>, <<43696, 43698, 2>>,
     <<43699, 43700, 1>>, <<43703, 43704, 1>>, <<43710, 43711, 1>>,
     <<43713, 43713, 1>>, <<43741, 43741, 1>>, <<43756, 43757, 1>>,
     <<43763, 43764, 1>>, <<43766, 43766, 1>>, <<43867, 43871, 1>>,
     <<43881, 43883, 1>>, <<44005, 44005, 1>>, <<44008, 44008, 1>>,
     <<44013, 44013, 1>>, <<64286, 64286, 1>>, <<64434, 64450, 1>>,
     <<65024, 65039, 1>>, <<65043, 65043, 1>>, <<65056, 65071, 1>>,
     <<65106, 65106, 1>>, <<65109, 65109, 1>>, <<65279, 65279, 1>>,
     <<65287, 65287, 1>>, <<65294, 65294, 1>>, <<65306, 65306, 1>>,
     <<65342, 65344, 2>>, <<65392, 65392, 1>>, <<65438, 65439, 1>>,
     <<65507, 65507, 1>>, <<65529, 65531, 1>>, <<66045, 66045, 1>>,
     <<66272, 66272, 1>>, <<66422, 66426, 1>>, <<67456, 67461, 1>>,
     <<67463, 67504, 1>>, <<67506, 67514, 1>>, <<68097, 68099, 1>>,
     <<68101, 68102, 1>>, <<68108, 68111, 1>>, <<68152, 68154, 1>>,
     <<68159, 68159, 1>>, <<68325, 68326, 1>>, <<68900, 68903, 1>>,
     <<69291, 69292, 1>>, <<69373, 69375, 1>>, <<69446, 69456, 1>>,
     <<69506, 69509, 1>>, <<69633, 69633, 1>>, <<69688, 69702, 1>>,
     <<69744, 69744, 1>>, <<69747, 69748, 1>>, <<69759, 69761, 1>>,
     <<69811, 69814, 1>>, <<69817, 69818, 1>>, <<69821, 69821, 1>>,
     <<69826, 69826, 1>>, <<69837, 69837, 1>>, <<69888, 69890, 1>>,
     <<69927, 69931, 1>>, <<69933, 69940, 1>>, <<70003, 70003, 1>>,
     <<70016, 70017, 1>>, <<70070, 70078, 1>>, <<70089, 70092, 1>>,
     <<70095, 70095, 1>>, <<70191, 70193, 1>>, <<70196, 70198, 2>>,
     <<70199, 70199, 1>>, <<70206, 70206, 1>>, <<70209, 70209, 1>>,
     <<70367, 70367, 1>>, <<70371, 70378, 1>>, <<70400, 70401, 1>>,
     <<70459, 70460, 1>>, <<70464, 70464, 1>>, <<70502, 70508, 1>>,
     <<70512, 70516, 1>>, <<70712, 70719, 1>>, <<70722, 70724, 1>>,
     <<70726, 70726, 1>>, <<70750, 70750, 1>>, <<70835, 70840, 1>>,
     <<70842, 70842, 1>>, <<70847, 70848, 1>>, <<70850, 70851, 1>>,
     <<71090, 71093, 1>>, <<71100, 71101, 1>>, <<71103, 71104, 1>>,
     <<71132, 71133, 1>>, <<71219, 71226, 1>>, <<71229, 71231, 2>>,
     <<71232, 71232, 1>>, <<71339, 71341, 2>>, <<71344, 71349, 1>>,
     <<71351, 71351, 1>>, <<71453, 71455, 1>>, <<71458, 71461, 1>>,
     <<71463, 71467, 1>>, <<71727, 71735, 1>>, <<71737, 71738, 1>>,
     <<71995, 71996, 1>>, <<71998, 71998, 1>>, <<72003, 72003, 1>>,
     <<72148, 72151, 1>>, <<72154, 72155, 1>>, <<72160, 72160, 1>>,
     <<72193, 72202, 1>>, <<72243, 72248, 1>>, <<72251, 72254, 1>>,
     <<72263, 72263, 1>>, <<72273, 72278, 1>>, <<72281, 72283, 1>>,
     <<72330, 72342, 1>>, <<72344, 72345, 1>>, <<72752, 72758, 1>>,
     <<72760, 72765, 1>>, <<72767, 72767, 1>>, <<72850, 72871, 1>>,
     <<72874, 72880, 1>>, <<72882, 72883, 1>>, <<72885, 72886, 1>>,
     <<73009, 73014, 1>>, <<73018, 73020, 2>>, <<73021, 73023, 2>>,
     <<73024, 73029, 1>>, <<73031, 73031, 1>>, <<73104, 73105, 1>>,
     <<73109, 73111, 2>>, <<73459, 73460, 1>>, <<73472, 73473, 1>>,
     <<73526, 73530, 1>>, <<73536, 73538, 2>>, <<78896, 78912, 1>>,
     <<78919, 78933, 1>>, <<92912, 92916, 1>>, <<92976, 92982, 1>>,
     <<92992, 92995, 1>>, <<94031, 94031, 1>>, <<94095, 94111, 1>>,
     <<94176, 94177, 1>>, <<94179, 94180, 1>>, <<110576, 110579, 1>>,
     <<110581, 110587, 1>>, <<110589, 110590, 1>>, <<113821, 113822, 1>>,
     <<113824, 113827, 1>>, <<118528, 118573, 1>>, <<118576, 118598, 1>>,
     <<119143, 119145, 1>>, <<119155, 119170, 1>>, <<119173, 119179, 1>>,
     <<119210, 119213, 1>>, <<119362, 119364, 1>>, <<121344, 121398, 1>>,
     <<121403, 121452, 1>>, <<121461, 121461, 1>>, <<121476, 121476, 1>>,
     <<121499, 121503, 1>>, <<121505, 121519, 1>>, <<122880, 122886, 1>>,
     <<122888, 122904, 1>>, <<122907, 122913, 1>>, <<122915, 122916, 1>>,
     <<122918, 122922, 1>>, <<122928, 122989, 1>>, <<123023, 123023, 1>>,
     <<123184, 123197, 1>>, <<123566, 123566, 1>>, <<123628, 123631, 1>>,
     <<124139, 124143, 1>>, <<125136, 125142, 1>>, <<125252, 125259, 1>>,
     <<127995, 127999, 1>>, <<917505, 917505, 1>>, <<917536, 917631, 1>>,
     <<917760, 917999, 1>> >>

Cased(c) == InRuns(c, CasedRuns)

CaseIgnorable(c) == InRuns(c, CaseIgnorableRuns)

\* The lower-case form of the character c, looked up in the runs: one
\* character, but two for the capital I with a dot above.
LowerForm(c) ==
  IF c = 304 THEN <<105, 775>>
  ELSE IF InRuns(c, LowerRuns)
  THEN <<c + LowerRuns[CHOOSE i \in DOMAIN LowerRuns : InRun(c, LowerRuns[i])][4]>>
  ELSE <<c>>

\* The lower-case forms of the ASCII characters, looked up once.
AsciiLowerForms == [c \in 0..127 |-> LowerForm(c)] @@ <<>>

\* The lower-case form of the character c.
ToLowerFull(c) == IF c \in DOMAIN AsciiLowerForms THEN AsciiLowerForms[c] ELSE LowerForm(c)

\* The lower-case form of the capital sigma at place i of chars: the final
\* sigma after a cased character, case-ignorable ones skipped, unless a cased
\* character follows in the same way.
handle_capital_sigma(chars, i) ==
  LET before == {j \in 1..(i - 1) : ~CaseIgnorable(chars[j])}
      after == {j \in (i + 1)..Len(chars) : ~CaseIgnorable(chars[j])}
  IN IF /\ before # {}
        /\ Cased(chars[CHOOSE j \in before : \A k \in before : k <= j])
        /\ (after = {} \/ ~Cased(chars[CHOOSE j \in after : \A k \in after : j <= k]))
     THEN 962
     ELSE 963

LowerAt(chars, i) ==
  IF chars[i] = 931 THEN <<handle_capital_sigma(chars, i)>> ELSE ToLowerFull(chars[i])

\* The lower-case forms of the characters of chars from place i on.
RECURSIVE LowerFrom(_, _)
LowerFrom(chars, i) ==
  IF i > Len(chars) THEN <<>> ELSE LowerAt(chars, i) \o LowerFrom(chars, i + 1)

\* str.lower()
LowerChars(chars) == LowerFrom(chars, 1)

\* The function f as the table of its values.
Tabulated(f) == f @@ <<>>

\* Each string with its characters.
StringTable ==
  << <<"", <<>>>>,
     <<"Fire Bolt", <<"F", "i", "r", "e", " ", "B", "o", "l", "t">>>>,
     <<"fire bolt", <<"f", "i", "r", "e", " ", "b", "o", "l", "t">>>>,
     <<"FIRE BOLT", <<"F", "I", "R", "E", " ", "B", "O", "L", "T">>>>,
     <<"Light", <<"L", "i", "g", "h", "t">>>>,
     <<"light", <<"l", "i", "g", "h", "t">>>>,
     <<"LIGHT", <<"L", "I", "G", "H", "T">>>>,
     <<"Mage Hand", <<"M", "a", "g", "e", " ", "H", "a", "n", "d">>>>,
     <<"mage hand", <<"m", "a", "g", "e", " ", "h", "a", "n", "d">>>>,
     <<"MAGE HAND", <<"M", "A", "G", "E", " ", "H", "A", "N", "D">>>>,
     <<"Prestidigitation", <<"P", "r", "e", "s", "t", "i", "d", "i", "g", "i", "t", "a", "t", "i", "o", "n">>>>,
     <<"prestidigitation", <<"p", "r", "e", "s", "t", "i", "d", "i", "g", "i", "t", "a", "t", "i", "o", "n">>>>,
     <<"PRESTIDIGITATION", <<"P", "R", "E", "S", "T", "I", "D", "I", "G", "I", "T", "A", "T", "I", "O", "N">>>>,
     <<"Sacred Flame", <<"S", "a", "c", "r", "e", "d", " ", "F", "l", "a", "m", "e">>>>,
     <<"sacred flame", <<"s", "a", "c", "r", "e", "d", " ", "f", "l", "a", "m", "e">>>>,
     <<"SACRED FLAME", <<"S", "A", "C", "R", "E", "D", " ", "F", "L", "A", "M", "E">>>>,
     <<"Magic Missile", <<"M", "a", "g", "i", "c", " ", "M", "i", "s", "s", "i", "l", "e">>>>,
     <<"magic missile", <<"m", "a", "g", "i", "c", " ", "m", "i", "s", "s", "i", "l", "e">>>>,
     <<"MAGIC MISSILE", <<"M", "A", "G", "I", "C", " ", "M", "I", "S", "S", "I", "L", "E">>>>,
     <<"Shield", <<"S", "h", "i", "e", "l", "d">>>>,
     <<"shield", <<"s", "h", "i", "e", "l", "d">>>>,
     <<"SHIELD", <<"S", "H", "I", "E", "L", "D">>>>,
     <<"Sleep", <<"S", "l", "e", "e", "p">>>>,
     <<"sleep", <<"s", "l", "e", "e", "p">>>>,
     <<"SLEEP", <<"S", "L", "E", "E", "P">>>>,
     <<"Detect Magic", <<"D", "e", "t", "e", "c", "t", " ", "M", "a", "g", "i", "c">>>>,
     <<"detect magic", <<"d", "e", "t", "e", "c", "t", " ", "m", "a", "g", "i", "c">>>>,
     <<"DETECT MAGIC", <<"D", "E", "T", "E", "C", "T", " ", "M", "A", "G", "I", "C">>>>,
     <<"Mage Armor", <<"M", "a", "g", "e", " ", "A", "r", "m", "o", "r">>>>,
     <<"mage armor", <<"m", "a", "g", "e", " ", "a", "r", "m", "o", "r">>>>,
     <<"MAGE ARMOR", <<"M", "A", "G", "E", " ", "A", "R", "M", "O", "R">>>>,
     <<"Find Familiar", <<"F", "i", "n", "d", " ", "F", "a", "m", "i", "l", "i", "a", "r">>>>,
     <<"find familiar", <<"f", "i", "n", "d", " ", "f", "a", "m", "i", "l", "i", "a", "r">>>>,
     <<"FIND FAMILIAR", <<"F", "I", "N", "D", " ", "F", "A", "M", "I", "L", "I", "A", "R">>>>,
     <<"Chromatic Orb", <<"C", "h", "r", "o", "m", "a", "t", "i", "c", " ", "O", "r", "b">>>>,
     <<"chromatic orb", <<"c", "h", "r", "o", "m", "a", "t", "i", "c", " ", "o", "r", "b">>>>,
     <<"CHROMATIC ORB", <<"C", "H", "R", "O", "M", "A", "T", "I", "C", " ", "O", "R", "B">>>>,
     <<"Cure Wounds", <<"C", "u", "r", "e", " ", "W", "o", "u", "n", "d", "s">>>>,
     <<"cure wounds", <<"c", "u", "r", "e", " ", "w", "o", "u", "n", "d", "s">>>>,
     <<"CURE WOUNDS", <<"C", "U", "R", "E", " ", "W", "O", "U", "N", "D", "S">>>>,
     <<"Fireball", <<"F", "i", "r", "e", "b", "a", "l", "l">>>>,
     <<"fireball", <<"f", "i", "r", "e", "b", "a", "l", "l">>>>,
     <<"FIREBALL", <<"F", "I", "R", "E", "B", "A", "L", "L">>>>,
     <<"Lightning Bolt", <<"L", "i", "g", "h", "t", "n", "i", "n", "g", " ", "B", "o", "l", "t">>>>,
     <<"lightning bolt", <<"l", "i", "g", "h", "t", "n", "i", "n", "g", " ", "b", "o", "l", "t">>>>,
     <<"LIGHTNING BOLT", <<"L", "I", "G", "H", "T", "N", "I", "N", "G", " ", "B", "O", "L", "T">>>>,
     <<"Chill Touch", <<"C", "h", "i", "l", "l", " ", "T", "o", "u", "c", "h">>>>,
     <<"chill touch", <<"c", "h", "i", "l", "l", " ", "t", "o", "u", "c", "h">>>>,
     <<"CHILL TOUCH", <<"C", "H", "I", "L", "L", " ", "T", "O", "U", "C", "H">>>>,
     <<"firebll", <<"f", "i", "r", "e", "b", "l", "l">>>>,
     <<"FIREBLL", <<"F", "I", "R", "E", "B", "L", "L">>>>,
     <<"Mage", <<"M", "a", "g", "e">>>>,
     <<"mage", <<"m", "a", "g", "e">>>>,
     <<"MAGE", <<"M", "A", "G", "E">>>>,
     <<"NonexistentSpell", <<"N", "o", "n", "e", "x", "i", "s", "t", "e", "n", "t", "S", "p", "e", "l", "l">>>>,
     <<"nonexistentspell", <<"n", "o", "n", "e", "x", "i", "s", "t", "e", "n", "t", "s", "p", "e", "l", "l">>>>,
     <<"NONEXISTENTSPELL", <<"N", "O", "N", "E", "X", "I", "S", "T", "E", "N", "T", "S", "P", "E", "L", "L">>>>,
     <<"NonexistentSpell123", <<"N", "o", "n", "e", "x", "i", "s", "t", "e", "n", "t", "S", "p", "e", "l", "l", "1", "2", "3">>>>,
     <<"nonexistentspell123", <<"n", "o", "n", "e", "x", "i", "s", "t", "e", "n", "t", "s", "p", "e", "l", "l", "1", "2", "3">>>>,
     <<"NONEXISTENTSPELL123", <<"N", "O", "N", "E", "X", "I", "S", "T", "E", "N", "T", "S", "P", "E", "L", "L", "1", "2", "3">>>>,
     <<"Zzyzx", <<"Z", "z", "y", "z", "x">>>>,
     <<"zzyzx", <<"z", "z", "y", "z", "x">>>>,
     <<"ZZYZX", <<"Z", "Z", "Y", "Z", "X">>>>,
     <<"Elf", <<"E", "l", "f">>>>,
     <<"elf", <<"e", "l", "f">>>>,
     <<"ELF", <<"E", "L", "F">>>>,
     <<"Gnome", <<"G", "n", "o", "m", "e">>>>,
     <<"gnome", <<"g", "n", "o", "m", "e">>>>,
     <<"GNOME", <<"G", "N", "O", "M", "E">>>>,
     <<"Halfling", <<"H", "a", "l", "f", "l", "i", "n", "g">>>>,
     <<"halfling", <<"h", "a", "l", "f", "l", "i", "n", "g">>>>,
     <<"HALFLING", <<"H", "A", "L", "F", "L", "I", "N", "G">>>>,
     <<"Human", <<"H", "u", "m", "a", "n">>>>,
     <<"human", <<"h", "u", "m", "a", "n">>>>,
     <<"HUMAN", <<"H", "U", "M", "A", "N">>>>,
     <<"Goliath", <<"G", "o", "l", "i", "a", "t", "h">>>>,
     <<"goliath", <<"g", "o", "l", "i", "a", "t", "h">>>>,
     <<"GOLIATH", <<"G", "O", "L", "I", "A", "T", "H">>>>,
     <<"elv", <<"e", "l", "v">>>>,
     <<"ELV", <<"E", "L", "V">>>>,
     <<"NonexistentRace123", <<"N", "o", "n", "e", "x", "i", "s", "t", "e", "n", "t", "R", "a", "c", "e", "1", "2", "3">>>>,
     <<"nonexistentrace123", <<"n", "o", "n", "e", "x", "i", "s", "t", "e", "n", "t", "r", "a", "c", "e", "1", "2", "3">>>>,
     <<"NONEXISTENTRACE123", <<"N", "O", "N", "E", "X", "I", "S", "T", "E", "N", "T", "R", "A", "C", "E", "1", "2", "3">>>>,
     <<"Acolyte", <<"A", "c", "o", "l", "y", "t", "e">>>>,
     <<"acolyte", <<"a", "c", "o", "l", "y", "t", "e">>>>,
     <<"ACOLYTE", <<"A", "C", "O", "L", "Y", "T", "E">>>>,
     <<"Criminal", <<"C", "r", "i", "m", "i", "n", "a", "l">>>>,
     <<"criminal", <<"c", "r", "i", "m", "i", "n", "a", "l">>>>,
     <<"CRIMINAL", <<"C", "R", "I", "M", "I", "N", "A", "L">>>>,
     <<"Sage", <<"S", "a", "g", "e">>>>,
     <<"sage", <<"s", "a", "g", "e">>>>,
     <<"SAGE", <<"S", "A", "G", "E">>>>,
     <<"Scribe", <<"S", "c", "r", "i", "b", "e">>>>,
     <<"scribe", <<"s", "c", "r", "i", "b", "e">>>>,
     <<"SCRIBE", <<"S", "C", "R", "I", "B", "E">>>>,
     <<"acolyt", <<"a", "c", "o", "l", "y", "t">>>>,
     <<"ACOLYT", <<"A", "C", "O", "L", "Y", "T">>>>,
     <<"NonexistentBackground123", <<"N", "o", "n", "e", "x", "i", "s", "t", "e", "n", "t", "B", "a", "c", "k", "g", "r", "o", "u", "n", "d", "1", "2", "3">>>>,
     <<"nonexistentbackground123", <<"n", "o", "n", "e", "x", "i", "s", "t", "e", "n", "t", "b", "a", "c", "k", "g", "r", "o", "u", "n", "d", "1", "2", "3">>>>,
     <<"NONEXISTENTBACKGROUND123", <<"N", "O", "N", "E", "X", "I", "S", "T", "E", "N", "T", "B", "A", "C", "K", "G", "R", "O", "U", "N", "D", "1", "2", "3">>>>,
     <<"Strength", <<"S", "t", "r", "e", "n", "g", "t", "h">>>>,
     <<"strength", <<"s", "t", "r", "e", "n", "g", "t", "h">>>>,
     <<"STRENGTH", <<"S", "T", "R", "E", "N", "G", "T", "H">>>>,
     <<"Dexterity", <<"D", "e", "x", "t", "e", "r", "i", "t", "y">>>>,
     <<"dexterity", <<"d", "e", "x", "t", "e", "r", "i", "t", "y">>>>,
     <<"DEXTERITY", <<"D", "E", "X", "T", "E", "R", "I", "T", "Y">>>>,
     <<"Constitution", <<"C", "o", "n", "s", "t", "i", "t", "u", "t", "i", "o", "n">>>>,
     <<"constitution", <<"c", "o", "n", "s", "t", "i", "t", "u", "t", "i", "o", "n">>>>,
     <<"CONSTITUTION", <<"C", "O", "N", "S", "T", "I", "T", "U", "T", "I", "O", "N">>>>,
     <<"Intelligence", <<"I", "n", "t", "e", "l", "l", "i", "g", "e", "n", "c", "e">>>>,
     <<"intelligence", <<"i", "n", "t", "e", "l", "l", "i", "g", "e", "n", "c", "e">>>>,
     <<"INTELLIGENCE", <<"I", "N", "T", "E", "L", "L", "I", "G", "E", "N", "C", "E">>>>,
     <<"Wisdom", <<"W", "i", "s", "d", "o", "m">>>>,
     <<"wisdom", <<"w", "i", "s", "d", "o", "m">>>>,
     <<"WISDOM", <<"W", "I", "S", "D", "O", "M">>>>,
     <<"Charisma", <<"C", "h", "a", "r", "i", "s", "m", "a">>>>,
     <<"charisma", <<"c", "h", "a", "r", "i", "s", "m", "a">>>>,
     <<"CHARISMA", <<"C", "H", "A", "R", "I", "S", "M", "A">>>>,
     <<"any", <<"a", "n", "y">>>>,
     <<"ANY", <<"A", "N", "Y">>>>,
     <<"luck", <<"l", "u", "c", "k">>>>,
     <<"LUCK", <<"L", "U", "C", "K">>>>,
     <<"Arcana", <<"A", "r", "c", "a", "n", "a">>>>,
     <<"arcana", <<"a", "r", "c", "a", "n", "a">>>>,
     <<"ARCANA", <<"A", "R", "C", "A", "N", "A">>>>,
     <<"History", <<"H", "i", "s", "t", "o", "r", "y">>>>,
     <<"history", <<"h", "i", "s", "t", "o", "r", "y">>>>,
     <<"HISTORY", <<"H", "I", "S", "T", "O", "R", "Y">>>>,
     <<"Insight", <<"I", "n", "s", "i", "g", "h", "t">>>>,
     <<"insight", <<"i", "n", "s", "i", "g", "h", "t">>>>,
     <<"INSIGHT", <<"I", "N", "S", "I", "G", "H", "T">>>>,
     <<"Investigation", <<"I", "n", "v", "e", "s", "t", "i", "g", "a", "t", "i", "o", "n">>>>,
     <<"investigation", <<"i", "n", "v", "e", "s", "t", "i", "g", "a", "t", "i", "o", "n">>>>,
     <<"INVESTIGATION", <<"I", "N", "V", "E", "S", "T", "I", "G", "A", "T", "I", "O", "N">>>>,
     <<"Medicine", <<"M", "e", "d", "i", "c", "i", "n", "e">>>>,
     <<"medicine", <<"m", "e", "d", "i", "c", "i", "n", "e">>>>,
     <<"MEDICINE", <<"M", "E", "D", "I", "C", "I", "N", "E">>>>,
     <<"Religion", <<"R", "e", "l", "i", "g", "i", "o", "n">>>>,
     <<"religion", <<"r", "e", "l", "i", "g", "i", "o", "n">>>>,
     <<"RELIGION", <<"R", "E", "L", "I", "G", "I", "O", "N">>>>,
     <<"Athletics", <<"A", "t", "h", "l", "e", "t", "i", "c", "s">>>>,
     <<"athletics", <<"a", "t", "h", "l", "e", "t", "i", "c", "s">>>>,
     <<"ATHLETICS", <<"A", "T", "H", "L", "E", "T", "I", "C", "S">>>>,
     <<"Perception", <<"P", "e", "r", "c", "e", "p", "t", "i", "o", "n">>>>,
     <<"perception", <<"p", "e", "r", "c", "e", "p", "t", "i", "o", "n">>>>,
     <<"PERCEPTION", <<"P", "E", "R", "C", "E", "P", "T", "I", "O", "N">>>>,
     <<"Stealth", <<"S", "t", "e", "a", "l", "t", "h">>>>,
     <<"stealth", <<"s", "t", "e", "a", "l", "t", "h">>>>,
     <<"STEALTH", <<"S", "T", "E", "A", "L", "T", "H">>>>,
     <<"Sleight of Hand", <<"S", "l", "e", "i", "g", "h", "t", " ", "o", "f", " ", "H", "a", "n", "d">>>>,
     <<"sleight of hand", <<"s", "l", "e", "i", "g", "h", "t", " ", "o", "f", " ", "h", "a", "n", "d">>>>,
     <<"SLEIGHT OF HAND", <<"S", "L", "E", "I", "G", "H", "T", " ", "O", "F", " ", "H", "A", "N", "D">>>>,
     <<"Juggling", <<"J", "u", "g", "g", "l", "i", "n", "g">>>>,
     <<"juggling", <<"j", "u", "g", "g", "l", "i", "n", "g">>>>,
     <<"JUGGLING", <<"J", "U", "G", "G", "L", "I", "N", "G">>>>,
     <<"Mage Hnd", <<"M", "a", "g", "e", " ", "H", "n", "d">>>>,
     <<"mage hnd", <<"m", "a", "g", "e", " ", "h", "n", "d">>>>,
     <<"MAGE HND", <<"M", "A", "G", "E", " ", "H", "N", "D">>>>,
     <<"Fire Blt", <<"F", "i", "r", "e", " ", "B", "l", "t">>>>,
     <<"fire blt", <<"f", "i", "r", "e", " ", "b", "l", "t">>>>,
     <<"FIRE BLT", <<"F", "I", "R", "E", " ", "B", "L", "T">>>>,
     <<"Magic Initiate (Cleric)", <<"M", "a", "g", "i", "c", " ", "I", "n", "i", "t", "i", "a", "t", "e", " ", "(", "C", "l", "e", "r", "i", "c", ")">>>>,
     <<"magic initiate (cleric)", <<"m", "a", "g", "i", "c", " ", "i", "n", "i", "t", "i", "a", "t", "e", " ", "(", "c", "l", "e", "r", "i", "c", ")">>>>,
     <<"MAGIC INITIATE (CLERIC)", <<"M", "A", "G", "I", "C", " ", "I", "N", "I", "T", "I", "A", "T", "E", " ", "(", "C", "L", "E", "R", "I", "C", ")">>>>,
     <<"Magic Initiate (Wizard)", <<"M", "a", "g", "i", "c", " ", "I", "n", "i", "t", "i", "a", "t", "e", " ", "(", "W", "i", "z", "a", "r", "d", ")">>>>,
     <<"magic initiate (wizard)", <<"m", "a", "g", "i", "c", " ", "i", "n", "i", "t", "i", "a", "t", "e", " ", "(", "w", "i", "z", "a", "r", "d", ")">>>>,
     <<"MAGIC INITIATE (WIZARD)", <<"M", "A", "G", "I", "C", " ", "I", "N", "I", "T", "I", "A", "T", "E", " ", "(", "W", "I", "Z", "A", "R", "D", ")">>>>,
     <<"Alert", <<"A", "l", "e", "r", "t">>>>,
     <<"alert", <<"a", "l", "e", "r", "t">>>>,
     <<"ALERT", <<"A", "L", "E", "R", "T">>>>,
     <<"Skilled", <<"S", "k", "i", "l", "l", "e", "d">>>>,
     <<"skilled", <<"s", "k", "i", "l", "l", "e", "d">>>>,
     <<"SKILLED", <<"S", "K", "I", "L", "L", "E", "D">>>>,
     <<"Magic Initiate", <<"M", "a", "g", "i", "c", " ", "I", "n", "i", "t", "i", "a", "t", "e">>>>,
     <<"magic initiate", <<"m", "a", "g", "i", "c", " ", "i", "n", "i", "t", "i", "a", "t", "e">>>>,
     <<"MAGIC INITIATE", <<"M", "A", "G", "I", "C", " ", "I", "N", "I", "T", "I", "A", "T", "E">>>>,
     <<"Lucky", <<"L", "u", "c", "k", "y">>>>,
     <<"lucky", <<"l", "u", "c", "k", "y">>>>,
     <<"LUCKY", <<"L", "U", "C", "K", "Y">>>> >>

\* The function of a table of pairs: each first entry to its second.
FunctionOf(table) ==
  [s \in {table[i][1] : i \in DOMAIN table} |->
     table[CHOOSE i \in DOMAIN table : table[i][1] = s][2]]

\* The code points of every string of a table of strings.
CodesOf(strings) == [s \in DOMAIN strings |-> Codes(strings[s])]

StringChars == Tabulated(CodesOf(FunctionOf(StringTable)))

Chars(s) == StringChars[s]

\* The string of strings that has the given characters.
NamedBy(strings, chars) == CHOOSE s \in DOMAIN strings : strings[s] = chars

\* The string of the given characters.
StringOf(chars) == NamedBy(StringChars, chars)

\* x.lower() of every string of strings.
LowerTable(strings) == [s \in DOMAIN strings |-> NamedBy(strings, LowerChars(strings[s]))]

LowerOf == Tabulated(LowerTable(StringChars))

\* x.lower()
Lower(s) == LowerOf[s]

---------------------------------------------------------------------------
(* The model classes *)

AbilityNames == <<"strength", "dexterity", "constitution",
                  "intelligence", "wisdom", "charisma">>

Abilities == Range(AbilityNames)

AbilityScoresOf(v) ==
  [strength |-> v[1], dexterity |-> v[2], constitution |-> v[3],
   intelligence |-> v[4], wisdom |-> v[5], charisma |-> v[6]]

DefaultScore == 10

DefaultAbilityScores ==
  [a \in Abilities |-> DefaultScore]

\* AbilityScores.get_modifier: the score of the lower-cased ability name,
\* then floor division of (score - 10) by 2.
get_modifier(scores, ability) == (scores[Lower(ability)] - 10) \div 2

DefaultSpeed == 30
DefaultLevel == 1
DefaultProficiencyBonus == 2

\* CharacterSheet(): every field at its declared default.
DefaultSheet ==
  [completed_steps |-> <<>>,
   name |-> None,
   race |-> None,
   size |-> None,
   speed |-> DefaultSpeed,
   darkvision |-> None,
   racial_traits |-> <<>>,
   ability_scores |-> DefaultAbilityScores,
   background_ability_bonuses |-> EmptyDict,
   character_class |-> None,
   level |-> DefaultLevel,
   hit_die |-> None,
   max_hp |-> None,
   saving_throw_proficiencies |-> <<>>,
   skill_proficiencies |-> EmptyBag,
   weapon_proficiencies |-> <<>>,
   armor_proficiencies |-> <<>>,
   tool_proficiencies |-> <<>>,
   languages |-> <<"Common">>,
   background |-> None,
   background_feature |-> None,
   origin_feat |-> None,
   spellcasting_ability |-> None,
   spell_save_dc |-> None,
   spell_attack_bonus |-> None,
   spell_slots |-> EmptyDict,
   cantrips_known |-> <<>>,
   spellbook |-> <<>>,
   prepared_spells |-> <<>>,
   max_prepared_spells |-> None,
   proficiency_bonus |-> DefaultProficiencyBonus,
   armor_class |-> None,
   initiative |-> None,
   passive_perception |-> None]

\* CharacterSheet.total_ability_scores: base + background bonus (0 if absent).
total_ability_scores(sheet) ==
  [a \in Abilities |->
     sheet.ability_scores[a] + DictGet(sheet.background_ability_bonuses, a, 0)]

\* get_total_modifier that reads the base score and ignores the bonus.
get_total_modifier_base_only(sheet, ability) ==
  get_modifier(sheet.ability_scores, ability)

\* get_total_modifier that rounds toward zero.
get_total_modifier_truncates(sheet, ability) ==
  LET total == total_ability_scores(sheet)[Lower(ability)]
  IN IF total >= 10 THEN (total - 10) \div 2 ELSE 0 - ((10 - total) \div 2)

\* CharacterSheet.get_total_modifier: the total of the lower-cased ability
\* name, then floor division of (total - 10) by 2.
get_total_modifier(sheet, ability) ==
  (total_ability_scores(sheet)[Lower(ability)] - 10) \div 2

\* The declared fields of CharacterSheet and its computed field.
FieldNames == DOMAIN DefaultSheet

ComputedFields == {"total_ability_scores"}

\* AbilityScores.model_dump(): the dict of the six scores by name.
ability_scores_dump(scores) ==
  [strength |-> scores.strength,
   dexterity |-> scores.dexterity,
   constitution |-> scores.constitution,
   intelligence |-> scores.intelligence,
   wisdom |-> scores.wisdom,
   charisma |-> scores.charisma]

\* The six scores read from a dict that holds every one of them.
declared_scores(doc) ==
  [strength |-> doc.strength,
   dexterity |-> doc.dexterity,
   constitution |-> doc.constitution,
   intelligence |-> doc.intelligence,
   wisdom |-> doc.wisdom,
   charisma |-> doc.charisma]

\* AbilityScores.model_validate(doc): each score from its key of the dict,
\* or the default where the dict has no such key.
ability_scores_validate(doc) ==
  IF DOMAIN doc = Abilities THEN declared_scores(doc)
  ELSE declared_scores(doc @@ DefaultAbilityScores)

\* sheet.model_dump(): the dict that holds, by name, every declared field
\* (None for an unset one, the lists in their order, the ability scores as
\* their own dict) and the computed field.
model_dump(sheet) ==
  [completed_steps |-> sheet.completed_steps,
   name |-> sheet.name,
   race |-> sheet.race,
   size |-> sheet.size,
   speed |-> sheet.speed,
   darkvision |-> sheet.darkvision,
   racial_traits |-> sheet.racial_traits,
   ability_scores |-> ability_scores_dump(sheet.ability_scores),
   background_ability_bonuses |-> sheet.background_ability_bonuses,
   character_class |-> sheet.character_class,
   level |-> sheet.level,
   hit_die |-> sheet.hit_die,
   max_hp |-> sheet.max_hp,
   saving_throw_proficiencies |-> sheet.saving_throw_proficiencies,
   skill_proficiencies |-> sheet.skill_proficiencies,
   weapon_proficiencies |-> sheet.weapon_proficiencies,
   armor_proficiencies |-> sheet.armor_proficiencies,
   tool_proficiencies |-> sheet.tool_proficiencies,
   languages |-> sheet.languages,
   background |-> sheet.background,
   background_feature |-> sheet.background_feature,
   origin_feat |-> sheet.origin_feat,
   spellcasting_ability |-> sheet.spellcasting_ability,
   spell_save_dc |-> sheet.spell_save_dc,
   spell_attack_bonus |-> sheet.spell_attack_bonus,
   spell_slots |-> sheet.spell_slots,
   cantrips_known |-> sheet.cantrips_known,
   spellbook |-> sheet.spellbook,
   prepared_spells |-> sheet.prepared_spells,
   max_prepared_spells |-> sheet.max_prepared_spells,
   proficiency_bonus |-> sheet.proficiency_bonus,
   armor_class |-> sheet.armor_class,
   initiative |-> sheet.initiative,
   passive_perception |-> sheet.passive_perception,
   total_ability_scores |-> total_ability_scores(sheet)]

\* model_validate that takes the dumped totals for the base ability scores.
model_validate_reads_totals(doc) ==
  [completed_steps |-> doc.completed_steps,
   name |-> doc.name,
   race |-> doc.race,
   size |-> doc.size,
   speed |-> doc.speed,
   darkvision |-> doc.darkvision,
   racial_traits |-> doc.racial_traits,
   ability_scores |-> ability_scores_validate(doc.total_ability_scores),
   background_ability_bonuses |-> doc.background_ability_bonuses,
   character_class |-> doc.character_class,
   level |-> doc.level,
   hit_die |-> doc.hit_die,
   max_hp |-> doc.max_hp,
   saving_throw_proficiencies |-> doc.saving_throw_proficiencies,
   skill_proficiencies |-> doc.skill_proficiencies,
   weapon_proficiencies |-> doc.weapon_proficiencies,
   armor_proficiencies |-> doc.armor_proficiencies,
   tool_proficiencies |-> doc.tool_proficiencies,
   languages |-> doc.languages,
   background |-> doc.background,
   background_feature |-> doc.background_feature,
   origin_feat |-> doc.origin_feat,
   spellcasting_ability |-> doc.spellcasting_ability,
   spell_save_dc |-> doc.spell_save_dc,
   spell_attack_bonus |-> doc.spell_attack_bonus,
   spell_slots |-> doc.spell_slots,
   cantrips_known |-> doc.cantrips_known,
   spellbook |-> doc.spellbook,
   prepared_spells |-> doc.prepared_spells,
   max_prepared_spells |-> doc.max_prepared_spells,
   proficiency_bonus |-> doc.proficiency_bonus,
   armor_class |-> doc.armor_class,
   initiative |-> doc.initiative,
   passive_perception |-> doc.passive_perception]

\* The declared fields read from a dict that holds every one of them.
declared_fields(doc) ==
  [completed_steps |-> doc.completed_steps,
   name |-> doc.name,
   race |-> doc.race,
   size |-> doc.size,
   speed |-> doc.speed,
   darkvision |-> doc.darkvision,
   racial_traits |-> doc.racial_traits,
   ability_scores |-> ability_scores_validate(doc.ability_scores),
   background_ability_bonuses |-> doc.background_ability_bonuses,
   character_class |-> doc.character_class,
   level |-> doc.level,
   hit_die |-> doc.hit_die,
   max_hp |-> doc.max_hp,
   saving_throw_proficiencies |-> doc.saving_throw_proficiencies,
   skill_proficiencies |-> doc.skill_proficiencies,
   weapon_proficiencies |-> doc.weapon_proficiencies,
   armor_proficiencies |-> doc.armor_proficiencies,
   tool_proficiencies |-> doc.tool_proficiencies,
   languages |-> doc.languages,
   background |-> doc.background,
   background_feature |-> doc.background_feature,
   origin_feat |-> doc.origin_feat,
   spellcasting_ability |-> doc.spellcasting_ability,
   spell_save_dc |-> doc.spell_save_dc,
   spell_attack_bonus |-> doc.spell_attack_bonus,
   spell_slots |-> doc.spell_slots,
   cantrips_known |-> doc.cantrips_known,
   spellbook |-> doc.spellbook,
   prepared_spells |-> doc.prepared_spells,
   max_prepared_spells |-> doc.max_prepared_spells,
   proficiency_bonus |-> doc.proficiency_bonus,
   armor_class |-> doc.armor_class,
   initiative |-> doc.initiative,
   passive_perception |-> doc.passive_perception]

\* The dump of a sheet nobody has written to: every field at its default.
DefaultDump == model_dump(DefaultSheet)

\* The keys of a dumped sheet.
DumpKeys == FieldNames \cup ComputedFields

\* CharacterSheet.model_validate(doc): each declared field from its key of
\* the dict, or its default where the dict has no such key; a key that is
\* no declared field (the dumped computed field) is ignored.
model_validate(doc) ==
  IF DOMAIN doc = DumpKeys THEN declared_fields(doc)
  ELSE declared_fields(doc @@ DefaultDump)

\* _get_sheet: the stored sheet, or a fresh default one.
get_sheet(st) == IF st = None THEN DefaultSheet ELSE model_validate(st[1])

\* _save_sheet: the whole document replaces the stored one.
save_sheet(sheet) == Some(model_dump(sheet))

---------------------------------------------------------------------------
(* The uniform envelope.  A message is <<kind, subject>>.  Each tool also   *)
(* yields the stored state it leaves behind.                                *)

Success(result, st) ==
  [status |-> "success", message |-> None, result |-> Some(result), state |-> st]

Failure(kind, subject, st) ==
  [status |-> "failure", message |-> Some(<<kind, subject>>), result |-> None,
   state |-> st]

---------------------------------------------------------------------------
(* Reference data: the spell records the tools and their tests rely on      *)

Spell(n, l, c) == [name |-> n, level |-> l, classes |-> c]

\* _load_spells(): name, level and class list of the records the tools,
\* their tests and the agents' instructions name (Fire Bolt is a cantrip,
\* Fireball is level 3, Sacred Flame is no wizard spell, ...).
Spells ==
  << Spell("Fire Bolt", 0, {"sorcerer", "wizard"}),
     Spell("Light", 0, {"bard", "cleric", "sorcerer", "wizard"}),
     Spell("Mage Hand", 0, {"bard", "sorcerer", "warlock", "wizard"}),
     Spell("Prestidigitation", 0, {"bard", "sorcerer", "warlock", "wizard"}),
     Spell("Sacred Flame", 0, {"cleric"}),
     Spell("Magic Missile", 1, {"sorcerer", "wizard"}),
     Spell("Shield", 1, {"sorcerer", "wizard"}),
     Spell("Sleep", 1, {"bard", "sorcerer", "wizard"}),
     Spell("Detect Magic", 1, {"bard", "cleric", "druid", "paladin", "ranger",
                               "sorcerer", "warlock", "wizard"}),
     Spell("Mage Armor", 1, {"sorcerer", "wizard"}),
     Spell("Find Familiar", 1, {"wizard"}),
     Spell("Chromatic Orb", 1, {"sorcerer", "wizard"}),
     Spell("Cure Wounds", 1, {"bard", "cleric", "druid", "paladin", "ranger"}),
     Spell("Fireball", 3, {"sorcerer", "wizard"}),
     Spell("Lightning Bolt", 3, {"sorcerer", "wizard"}),
     Spell("Chill Touch", 0, {"sorcerer", "warlock", "wizard"}) >>

SpellNames == [i \in DOMAIN Spells |-> Spells[i].name]

\* The race records: name, size, darkvision and the abilities of the bonuses.
Race(n, sz, dv, ab) == [name |-> n, size |-> sz, darkvision |-> dv, abilities |-> ab]

\* _load_races(): the records the tools and their tests rely on.
Races ==
  << Race("Elf", "medium", Some(60), {"dexterity"}),
     Race("Gnome", "small", Some(60), {"intelligence"}),
     Race("Halfling", "small", None, {"dexterity"}),
     Race("Human", "medium", None, {"any"}) >>

all_race_names == [i \in DOMAIN Races |-> Races[i].name]

\* The background records, as _load_backgrounds() builds them.
Background(n, ab, feat, sk, tool) ==
  [name |-> n, abilityScores |-> ab, originFeat |-> feat,
   skillProficiencies |-> sk, toolProficiency |-> tool]

\* _load_backgrounds(): the dict of the records by name, in file order.
Backgrounds ==
  << Background("Acolyte", <<"Intelligence", "Wisdom", "Charisma">>,
                "Magic Initiate (Cleric)", <<"Insight", "Religion">>,
                "Calligrapher's Supplies"),
     Background("Criminal", <<"Dexterity", "Constitution", "Intelligence">>,
                "Alert", <<"Sleight of Hand", "Stealth">>, "Thieves' Tools"),
     Background("Sage", <<"Constitution", "Intelligence", "Wisdom">>,
                "Magic Initiate (Wizard)", <<"Arcana", "History">>,
                "Calligrapher's Supplies"),
     Background("Scribe", <<"Dexterity", "Intelligence", "Wisdom">>,
                "Skilled", <<"Investigation", "Perception">>,
                "Calligrapher's Supplies") >>

all_background_names == [i \in DOMAIN Backgrounds |-> Backgrounds[i].name]

---------------------------------------------------------------------------
(* The scorer of the name resolver: rapidfuzz.fuzz.WRatio on two strings    *)
(* given by their characters.  A score is a fraction <<n, d>> of value n/d. *)

\* s1 <= s2, by whole parts first and then by the remainders.
ScoreLeq(s1, s2) ==
  IF s1[1] \div s1[2] # s2[1] \div s2[2]
  THEN s1[1] \div s1[2] < s2[1] \div s2[2]
  ELSE (s1[1] % s1[2]) * s2[2] <= (s2[1] % s2[2]) * s1[2]

ScoreMax(s1, s2) == IF ScoreLeq(s1, s2) THEN s2 ELSE s1

\* The largest score of a non-empty set of scores.
ScoreMaxOf(scores) == CHOOSE p \in scores : \A q \in scores : ScoreLeq(q, p)

\* score * num / den
Scaled(s1, num, den) == <<s1[1] * num, s1[2] * den>>

\* One row of the longest-common-subsequence table: the entries of the row
\* of character c from the row above.  Entry j is the entry above, or one
\* more than the entry above and left of the last c among b[1..j].
LcsRow(above, c, b) ==
  [j \in 1..Len(b) |->
     LET found == {k \in 1..j : b[k] = c}
         last == CHOOSE k \in found : \A m \in found : m <= k
     IN IF found = {} THEN above[j]
        ELSE Max(above[j], (IF last = 1 THEN 0 ELSE above[last - 1]) + 1)]

\* The row of a[hi] from the row above a[lo]: the rows of a[lo..hi] one
\* after the other, the range halved at each step.
RECURSIVE LcsRows(_, _, _, _, _)
LcsRows(a, b, lo, hi, above) ==
  IF lo = hi THEN LcsRow(above, a[lo], b)
  ELSE LET mid == (lo + hi) \div 2
       IN LcsRows(a, b, mid + 1, hi, LcsRows(a, b, lo, mid, above))

Shorter(a, b) == IF Len(a) <= Len(b) THEN a ELSE b

Longer(a, b) == IF Len(a) <= Len(b) THEN b ELSE a

\* The last entry of the table of short down the rows and long across.
LcsLast(short, long) ==
  LcsRows(short, long, 1, Len(short), [j \in 1..Len(long) |-> 0])[Len(long)]

\* The length of the longest common subsequence of a and b.
LcsLength(a, b) ==
  IF a = <<>> \/ b = <<>> THEN 0 ELSE LcsLast(Shorter(a, b), Longer(a, b))

\* The Indel distance: insertions and deletions that turn a into b.
Indel(a, b) == Len(a) + Len(b) - 2 * LcsLength(a, b)

\* The normalised similarity, in percent, of a distance over a length sum.
NormScore(dist, lensum) ==
  IF lensum = 0 THEN <<100, 1>> ELSE <<100 * (lensum - dist), lensum>>

\* fuzz.ratio
ratio(a, b) == NormScore(Indel(a, b), Len(a) + Len(b))

\* The substrings of long that short is aligned with: the prefixes shorter
\* than short, the windows of the length of short, and the suffixes of at
\* most that length.
Alignments(short, long) ==
  {SubSeq(long, 1, i) : i \in 1..(Len(short) - 1)}
    \cup {SubSeq(long, i, i + Len(short) - 1) : i \in 1..(Len(long) - Len(short))}
    \cup {SubSeq(long, i, Len(long)) : i \in (Len(long) - Len(short) + 1)..Len(long)}

PartialOf(short, long) ==
  ScoreMaxOf({ratio(short, w) : w \in Alignments(short, long)})

\* The best ratio of short against a substring of long; with equal lengths
\* both ways are tried.
PartialBoth(short, long) ==
  IF Len(short) < Len(long) THEN PartialOf(short, long)
  ELSE ScoreMax(PartialOf(short, long), PartialOf(long, short))

\* fuzz.partial_ratio
partial_ratio(a, b) ==
  IF a = <<>> \/ b = <<>>
  THEN (IF a = b THEN <<100, 1>> ELSE <<0, 1>>)
  ELSE PartialBoth(Shorter(a, b), Longer(a, b))

\* The end of the word that starts at place i.
WordEnd(chars, i) ==
  CHOOSE j \in i..Len(chars) :
    /\ \A k \in i..j : chars[k] \notin Whitespace
    /\ (IF j = Len(chars) THEN TRUE ELSE chars[j + 1] \in Whitespace)

\* The places where a word starts.
WordStarts(chars) ==
  {i \in DOMAIN chars :
     /\ chars[i] \notin Whitespace
     /\ (IF i = 1 THEN TRUE ELSE chars[i - 1] \in Whitespace)}

\* The n-th place of a set of places.
Nth(places, n) == CHOOSE i \in places : Cardinality({k \in places : k < i}) = n - 1

\* The word that starts at place i.
WordAt(chars, i) == SubSeq(chars, i, WordEnd(chars, i))

WordsAt(chars, starts) ==
  [n \in 1..Cardinality(starts) |-> WordAt(chars, Nth(starts, n))]

\* str.split(): the words between runs of whitespace, in their order.
Split(chars) == WordsAt(chars, WordStarts(chars))

\* The first place where two words differ, 0 when one starts the other.
FirstDifference(a, b) ==
  IF \E i \in DOMAIN a \cap DOMAIN b : a[i] # b[i]
  THEN CHOOSE i \in DOMAIN a \cap DOMAIN b :
         a[i] # b[i] /\ \A j \in 1..(i - 1) : a[j] = b[j]
  ELSE 0

LessAt(a, b, k) ==
  IF k = 0 THEN Len(a) < Len(b) ELSE a[k] < b[k]

\* a < b for two words, by code points.
WordLess(a, b) == LessAt(a, b, FirstDifference(a, b))

\* The place of word i of words in their order: after the smaller words and
\* the equal words before it.
Place(words, i) ==
  Cardinality({j \in DOMAIN words :
                 \/ WordLess(words[j], words[i])
                 \/ words[j] = words[i] /\ j < i}) + 1

\* sorted(words) of a list of words.
Sorted(words) ==
  [n \in DOMAIN words |-> words[CHOOSE i \in DOMAIN words : Place(words, i) = n]]

\* sorted(words) of a set of words.
SortedSet(words) ==
  [n \in 1..Cardinality(words) |->
     CHOOSE w \in words : Cardinality({v \in words : WordLess(v, w)}) = n - 1]

\* " ".join(words)
RECURSIVE Join(_)
Join(words) ==
  IF words = <<>> THEN <<>>
  ELSE IF Len(words) = 1 THEN words[1]
  ELSE words[1] \o <<32>> \o Join(Tail(words))

\* fuzz.token_sort_ratio
token_sort_ratio(a, b) == ratio(Join(Sorted(Split(a))), Join(Sorted(Split(b))))

\* The token set score from the lengths of the joined words of one string
\* only, of the other only and of both, the gap between joined parts, and
\* the distance of the two differences.
TokenSetBest(len_ab, len_ba, sect_len, gap, dist) ==
  IF sect_len = 0 THEN NormScore(dist, len_ab + len_ba)
  ELSE ScoreMaxOf({NormScore(dist, 2 * (sect_len + gap) + len_ab + len_ba),
                   NormScore(gap + len_ab, 2 * sect_len + gap + len_ab),
                   NormScore(gap + len_ba, 2 * sect_len + gap + len_ba)})

TokenSetScore(diff_ab, diff_ba, sect_len) ==
  TokenSetBest(Len(diff_ab), Len(diff_ba), sect_len,
               IF sect_len # 0 THEN 1 ELSE 0, Indel(diff_ab, diff_ba))

\* The words of a set, sorted and joined.
JoinedSet(words) == Join(SortedSet(words))

TokenSets(tokens_a, tokens_b) ==
  IF tokens_a = {} \/ tokens_b = {} THEN <<0, 1>>
  ELSE IF /\ tokens_a \cap tokens_b # {}
          /\ (tokens_a \subseteq tokens_b \/ tokens_b \subseteq tokens_a)
  THEN <<100, 1>>
  ELSE TokenSetScore(JoinedSet(tokens_a \ tokens_b), JoinedSet(tokens_b \ tokens_a),
                     Len(JoinedSet(tokens_a \cap tokens_b)))

\* fuzz.token_set_ratio
token_set_ratio(a, b) == TokenSets(Range(Split(a)), Range(Split(b)))

\* fuzz.token_ratio
token_ratio(a, b) == ScoreMax(token_sort_ratio(a, b), token_set_ratio(a, b))

PartialTokenSets(tokens_a, tokens_b) ==
  IF tokens_a = {} \/ tokens_b = {} THEN <<0, 1>>
  ELSE IF tokens_a \cap tokens_b # {} THEN <<100, 1>>
  ELSE partial_ratio(JoinedSet(tokens_a \ tokens_b), JoinedSet(tokens_b \ tokens_a))

PartialTokens(words_a, words_b) ==
  IF words_a = <<>> \/ words_b = <<>> THEN <<0, 1>>
  ELSE IF Range(words_a) \cap Range(words_b) # {} THEN <<100, 1>>
  ELSE ScoreMax(partial_ratio(Join(Sorted(words_a)), Join(Sorted(words_b))),
                PartialTokenSets(Range(words_a), Range(words_b)))

\* fuzz.partial_token_ratio: 100 when the strings share a word, else the
\* better partial ratio of the sorted words and of the words not shared.
partial_token_ratio(a, b) == PartialTokens(Split(a), Split(b))

\* The scale of the partial ratios: 0.9, and 0.6 from a length ratio of 8 on.
PartialScale(a, b) ==
  IF Len(Longer(a, b)) < 8 * Len(Shorter(a, b)) THEN <<9, 10>> ELSE <<6, 10>>

WithPartials(a, b, scale) ==
  ScoreMaxOf({ratio(a, b),
              Scaled(partial_ratio(a, b), scale[1], scale[2]),
              Scaled(partial_token_ratio(a, b), 95 * scale[1], 100 * scale[2])})

\* fuzz.WRatio: the plain ratio, and, by the ratio of the lengths, either
\* the token ratio scaled by 0.95 or the partial ratios scaled by 0.9 (0.6
\* from a length ratio of 8 on) and by 0.95.
WRatio(a, b) ==
  IF a = <<>> \/ b = <<>> THEN <<0, 1>>
  ELSE IF 2 * Len(Longer(a, b)) < 3 * Len(Shorter(a, b))
  THEN ScoreMax(ratio(a, b), Scaled(token_ratio(a, b), 95, 100))
  ELSE WithPartials(a, b, PartialScale(a, b))

ScoreCutoff == 65

\* The score of two strings, both lower-cased by the processor.
Score(query, candidate) == WRatio(LowerChars(Chars(query)), LowerChars(Chars(candidate)))

\* The score of the candidate for the query is at or above score_cutoff.
ScoreMeetsCutoff(query, candidate) == ScoreLeq(<<ScoreCutoff, 1>>, Score(query, candidate))

\* The places of the candidates that score at or above the cutoff, each with
\* its score.
Hits(query, candidates) ==
  {h \in {<<i, Score(query, candidates[i])>> : i \in DOMAIN candidates} :
     ScoreLeq(<<ScoreCutoff, 1>>, h[2])}

\* The hit of the best score, the first of them when several score alike.
BestHit(hits) ==
  CHOOSE p \in hits : \A q \in hits :
    \/ ~ScoreLeq(p[2], q[2])
    \/ ScoreLeq(q[2], p[2]) /\ p[1] <= q[1]

Chosen(candidates, hit) == Some(<<candidates[hit[1]], hit[2]>>)

BestOf(candidates, hits) ==
  IF hits = {} THEN None ELSE Chosen(candidates, BestHit(hits))

\* rapidfuzz.process.extractOne: the candidate of the best score at or above
\* the cutoff, the first of them when several score alike; None when no
\* candidate reaches the cutoff.
extractOne(query, candidates) == BestOf(candidates, Hits(query, candidates))

\* The queries the tools are called with here, with the list each is
\* resolved against.
ResolvedCalls ==
  ((Range(SpellNames)
      \cup {"fire bolt", "magic missile", "shield", "fireball", "firebll", "Mage",
            "NonexistentSpell123", "NonexistentSpell", "Zzyzx"})
     \X {SpellNames})
  \cup ({"Elf", "elf", "elv", "Gnome", "Human", "Goliath", "NonexistentRace123", ""}
          \X {all_race_names})
  \cup ({"Acolyte", "acolyt", "Sage", "sage", "Scribe", "NonexistentBackground123", ""}
          \X {all_background_names})

\* extractOne of those calls, worked out once.
Resolved == Tabulated([call \in ResolvedCalls |-> extractOne(call[1], call[2])])

\* The name in what extractOne returns.
NameOf(result) == IF result = None THEN None ELSE Some(result[1][1])

\* fuzzy_match: the name of the best candidate at or above the cutoff, else
\* None.
fuzzy_match(query, candidates) ==
  NameOf(IF <<query, candidates>> \in ResolvedCalls
         THEN Resolved[<<query, candidates>>]
         ELSE extractOne(query, candidates))

\* find_spell_by_name whose failure says nothing.
find_spell_by_name_without_message(spell_name) ==
  LET match == fuzzy_match(spell_name, SpellNames)
  IN IF match = None
     THEN [status |-> "failure", message |-> None, result |-> None]
     ELSE LET i == CHOOSE i \in DOMAIN Spells : Spells[i].name = match[1]
          IN [status |-> "success", message |-> None, result |-> Some(Spells[i])]

\* An exception leaving the tool: no envelope is returned.
Raise(kind, subject) ==
  [status |-> "raise", message |-> Some(<<kind, subject>>), result |-> None]

\* The part of find_spell_by_name after the resolver has answered `match`:
\* failure when nothing matches, else the first record whose name is the
\* matched one, and a RuntimeError when no record has that name.
spell_for_match(spell_name, match) ==
  IF match = None
  THEN [status |-> "failure",
        message |-> Some(<<"No spell matches", spell_name>>),
        result |-> None]
  ELSE LET hits == {i \in DOMAIN Spells : Spells[i].name = match[1]}
       IN IF hits = {} THEN Raise("RuntimeError", match[1])
          ELSE [status |-> "success", message |-> None,
                result |-> Some(Spells[CHOOSE i \in hits : \A j \in hits : i <= j])]

\* find_spell_by_name that answers a failure whenever the query is not
\* spelt as the catalogue spells the name.
find_spell_by_name_exact_only(spell_name) ==
  IF spell_name \in Range(SpellNames)
  THEN spell_for_match(spell_name, Some(spell_name))
  ELSE spell_for_match(spell_name, None)

\* find_spell_by_name: the resolver is asked with the names of all records.
find_spell_by_name(spell_name) ==
  spell_for_match(spell_name, fuzzy_match(spell_name, SpellNames))

\* The part of find_race_by_name after the resolver has answered `match`.
race_for_match(race_name, match) ==
  IF match = None
  THEN [status |-> "failure", message |-> Some(<<"No race matches", race_name>>),
        result |-> None]
  ELSE LET hits == {i \in DOMAIN Races : Races[i].name = match[1]}
       IN IF hits = {} THEN Raise("RuntimeError", match[1])
          ELSE [status |-> "success", message |-> None,
                result |-> Some(Races[CHOOSE i \in hits : \A j \in hits : i <= j])]

find_race_by_name(race_name) ==
  race_for_match(race_name, fuzzy_match(race_name, all_race_names))

\* The part of find_background_by_name after the resolver has answered
\* `match`: backgrounds[match] is a KeyError when the dict has no such key.
background_for_match(background_name, match) ==
  IF match = None
  THEN [status |-> "failure",
        message |-> Some(<<"No background matches", background_name>>),
        result |-> None]
  ELSE LET hits == {i \in DOMAIN Backgrounds : Backgrounds[i].name = match[1]}
       IN IF hits = {} THEN Raise("KeyError", match[1])
          ELSE [status |-> "success", message |-> None,
                result |-> Some(Backgrounds[CHOOSE i \in hits : TRUE])]

find_background_by_name(background_name) ==
  background_for_match(background_name,
                       fuzzy_match(background_name, all_background_names))

\* The School and Class enumerations of the spell records.
School ==
  << "abjuration", "conjuration", "divination", "enchantment", "evocation",
     "illusion", "necromancy", "transmutation" >>

Class ==
  << "bard", "cleric", "druid", "paladin", "ranger", "sorcerer", "warlock", "wizard" >>

\* spell["school"] and spell["ritual"] of the records of Spells
SchoolOf(name) ==
  CASE name \in {"Fire Bolt", "Light", "Sacred Flame", "Magic Missile",
                 "Chromatic Orb", "Fireball", "Lightning Bolt"} -> "evocation"
    [] name = "Chill Touch" -> "necromancy"
    [] name \in {"Mage Hand", "Find Familiar"} -> "conjuration"
    [] name \in {"Shield", "Mage Armor", "Cure Wounds"} -> "abjuration"
    [] name = "Prestidigitation" -> "transmutation"
    [] name = "Sleep" -> "enchantment"
    [] name = "Detect Magic" -> "divination"

RitualOf(name) == name \in {"Detect Magic", "Find Familiar"}

\* list_schools, list_classes: the values that occur in the records, each
\* once, in no particular order.
list_schools ==
  [status |-> "success", message |-> None,
   result |-> Some(ListOfSet({SchoolOf(SpellNames[i]) : i \in DOMAIN SpellNames}))]

list_classes ==
  [status |-> "success", message |-> None,
   result |-> Some(ListOfSet(UNION {Spells[i].classes : i \in DOMAIN Spells}))]

\* list_schools and list_classes of the spell agent: the whole School and
\* Class enumerations, whatever the records hold.
spell_agent_list_schools ==
  [status |-> "success", message |-> None, result |-> Some(School)]

spell_agent_list_classes ==
  [status |-> "success", message |-> None, result |-> Some(Class)]

\* list_spells: the filters are validated first, then applied together; an
\* absent filter (None) is not applied.
list_spells(class, school, max_level, is_ritual) ==
  IF school # None /\ school[1] \notin Range(School)
  THEN [status |-> "failure",
        message |-> Some(<<"Invalid school", school[1], School>>), result |-> None]
  ELSE IF class # None /\ class[1] \notin Range(Class)
  THEN [status |-> "failure",
        message |-> Some(<<"Invalid class", class[1], Class>>), result |-> None]
  ELSE
    [status |-> "success", message |-> None,
     result |-> Some(SelectSeq(Spells, LAMBDA spell :
       /\ class = None \/ class[1] \in spell.classes
       /\ school = None \/ SchoolOf(spell.name) = school[1]
       /\ max_level = None \/ spell.level <= max_level[1]
       /\ is_ritual = None \/ RitualOf(spell.name) = is_ritual[1]))]

\* spell["concentration"] of the records: Detect Magic is the one spell of
\* the catalogue that needs concentration.
ConcentrationOf(name) == name = "Detect Magic"

\* list_spells of the spell agent that keeps a record as soon as one of the
\* supplied filters admits it.
spell_agent_list_spells_any_filter(class, school, level, max_level, is_ritual, is_concentration) ==
  IF school # None /\ school[1] \notin Range(School)
  THEN [status |-> "failure",
        message |-> Some(<<"Invalid school", school[1], School>>), result |-> None]
  ELSE IF class # None /\ class[1] \notin Range(Class)
  THEN [status |-> "failure",
        message |-> Some(<<"Invalid class", class[1], Class>>), result |-> None]
  ELSE
    [status |-> "success", message |-> None,
     result |-> Some(SelectSeq(Spells, LAMBDA spell :
       \/ /\ class = None /\ school = None /\ level = None /\ max_level = None
          /\ is_ritual = None /\ is_concentration = None
       \/ class # None /\ class[1] \in spell.classes
       \/ school # None /\ SchoolOf(spell.name) = school[1]
       \/ level # None /\ spell.level = level[1]
       \/ max_level # None /\ spell.level <= max_level[1]
       \/ is_ritual # None /\ RitualOf(spell.name) = is_ritual[1]
       \/ is_concentration # None
            /\ ConcentrationOf(spell.name) = is_concentration[1]))]

\* list_spells of the spell agent: school and class are validated, then a
\* record is skipped as soon as one supplied filter rejects it.
spell_agent_list_spells(class, school, level, max_level, is_ritual, is_concentration) ==
  IF school # None /\ school[1] \notin Range(School)
  THEN [status |-> "failure",
        message |-> Some(<<"Invalid school", school[1], School>>), result |-> None]
  ELSE IF class # None /\ class[1] \notin Range(Class)
  THEN [status |-> "failure",
        message |-> Some(<<"Invalid class", class[1], Class>>), result |-> None]
  ELSE
    [status |-> "success", message |-> None,
     result |-> Some(SelectSeq(Spells, LAMBDA spell :
       /\ ~(class # None /\ class[1] \notin spell.classes)
       /\ ~(school # None /\ SchoolOf(spell.name) # school[1])
       /\ ~(level # None /\ spell.level # level[1])
       /\ ~(max_level # None /\ spell.level > max_level[1])
       /\ ~(is_ritual # None /\ RitualOf(spell.name) # is_ritual[1])
       /\ ~(is_concentration # None
              /\ ConcentrationOf(spell.name) # is_concentration[1])))]

\* list_wizard_cantrips: the names of the wizard spells of level at most 0.
list_wizard_cantrips ==
  LET result == list_spells(Some("wizard"), None, Some(0), None)
  IN IF result.status = "failure" THEN result
     ELSE [status |-> "success", message |-> None,
           result |-> Some([i \in DOMAIN result.result[1] |->
                              result.result[1][i].name])]

\* list_wizard_level1_spells: of the wizard spells of level at most 1, the
\* names of those of level 1.
list_wizard_level1_spells ==
  LET result == list_spells(Some("wizard"), None, Some(1), None)
  IN IF result.status = "failure" THEN result
     ELSE LET level1 == SelectSeq(result.result[1], LAMBDA spell : spell.level = 1)
          IN [status |-> "success", message |-> None,
              result |-> Some([i \in DOMAIN level1 |-> level1[i].name])]

\* find_spell_by_name of the spell agent: the same resolution over the same
\* records, with a message of its own.
spell_agent_find_spell_by_name(spell_name) ==
  LET found == spell_for_match(spell_name, fuzzy_match(spell_name, SpellNames))
  IN IF found.status = "failure"
     THEN [found EXCEPT !.message = Some(<<"No spell found matching", spell_name>>)]
     ELSE found

\* compare_spells that looks both names up before it answers, and reports the
\* second failure when there is one.
compare_spells_reports_last(spell_name_1, spell_name_2) ==
  LET result1 == spell_agent_find_spell_by_name(spell_name_1)
      result2 == spell_agent_find_spell_by_name(spell_name_2)
  IN IF result2.status = "failure" THEN result2
     ELSE IF result1.status = "failure" THEN result1
     ELSE [status |-> "success", message |-> None,
           result |-> Some([spell_1 |-> result1.result[1],
                            spell_2 |-> result2.result[1]])]

\* compare_spells: the first look-up that fails is returned as it is.
compare_spells(spell_name_1, spell_name_2) ==
  LET result1 == spell_agent_find_spell_by_name(spell_name_1)
      result2 == spell_agent_find_spell_by_name(spell_name_2)
  IN IF result1.status = "failure" THEN result1
     ELSE IF result2.status = "failure" THEN result2
     ELSE [status |-> "success", message |-> None,
           result |-> Some([spell_1 |-> result1.result[1],
                            spell_2 |-> result2.result[1]])]

\* The Size and Ability enumerations of the race records.
Size == <<"small", "medium">>

Ability ==
  << "strength", "dexterity", "constitution", "intelligence", "wisdom",
     "charisma", "any" >>

\* list_races: size and ability are validated, then the filters are applied
\* together.
list_races(size, has_darkvision, ability) ==
  IF size # None /\ size[1] \notin Range(Size)
  THEN [status |-> "failure", message |-> Some(<<"Invalid size", size[1], Size>>),
        result |-> None]
  ELSE IF ability # None /\ ability[1] \notin Range(Ability)
  THEN [status |-> "failure",
        message |-> Some(<<"Invalid ability", ability[1], Ability>>),
        result |-> None]
  ELSE
    [status |-> "success", message |-> None,
     result |-> Some(SelectSeq(Races, LAMBDA race :
       /\ size = None \/ race.size = size[1]
       /\ has_darkvision = None \/ (race.darkvision # None) = has_darkvision[1]
       /\ ability = None \/ ability[1] \in race.abilities))]

\* list_races_by_ability: the names of the races with a bonus to the ability.
list_races_by_ability(ability) ==
  IF ability \notin Range(Ability)
  THEN [status |-> "failure", message |-> Some(<<"Invalid ability", ability, Ability>>),
        result |-> None]
  ELSE LET matching == SelectSeq(Races, LAMBDA race : ability \in race.abilities)
       IN [status |-> "success", message |-> None,
           result |-> Some([i \in DOMAIN matching |-> matching[i].name])]

\* list_backgrounds: the ability is compared as given, the skill without
\* regard to case; neither is validated.
list_backgrounds(ability, skill) ==
  [status |-> "success", message |-> None,
   result |-> Some(SelectSeq(Backgrounds, LAMBDA background :
     /\ ability = None \/ ability[1] \in Range(background.abilityScores)
     /\ skill = None
        \/ Lower(skill[1])
             \in {Lower(sk) : sk \in Range(background.skillProficiencies)}))]

\* needle in hay, of two strings given by their characters
Infix(needle, hay) ==
  \E i \in 0..(Len(hay) - Len(needle)) : SubSeq(hay, i + 1, i + Len(needle)) = needle

\* list_backgrounds_by_feat: the names of the backgrounds whose origin feat
\* holds feat_name, without regard to case; a failure when there is none.
list_backgrounds_by_feat(feat_name) ==
  LET matching == SelectSeq(Backgrounds, LAMBDA background :
                    Infix(Chars(Lower(feat_name)), Chars(Lower(background.originFeat))))
  IN IF matching = <<>>
     THEN [status |-> "failure",
           message |-> Some(<<"No backgrounds found with feat matching", feat_name>>),
           result |-> None]
     ELSE [status |-> "success", message |-> None,
           result |-> Some([i \in DOMAIN matching |-> matching[i].name])]

\* sorted(names) of a set of strings
SortedNames(names) ==
  LET words == SortedSet({Chars(name) : name \in names})
  IN [i \in DOMAIN words |-> StringOf(words[i])]

\* list_all_skills: every skill of a background, once, in sorted order.
list_all_skills ==
  [status |-> "success", message |-> None,
   result |-> Some(SortedNames(UNION {Range(Backgrounds[i].skillProficiencies) :
                                        i \in DOMAIN Backgrounds}))]

\* list_all_feats: every origin feat of a background, once, in sorted order.
list_all_feats ==
  [status |-> "success", message |-> None,
   result |-> Some(SortedNames({Backgrounds[i].originFeat : i \in DOMAIN Backgrounds}))]

\* get_ability_bonuses: what find_race_by_name answers or raises when it
\* does not succeed, and otherwise the bonuses of the race found.
bonuses_of(race_result) ==
  IF race_result.status # "success" THEN race_result
  ELSE [status |-> "success", message |-> None,
        result |-> Some(race_result.result[1].abilities)]

get_ability_bonuses(race_name) == bonuses_of(find_race_by_name(race_name))

\* list_sizes: the Size enumeration.
list_sizes == [status |-> "success", message |-> None, result |-> Some(Size)]

---------------------------------------------------------------------------
(* The step sequencer *)

StepResult(agent, step, reason) ==
  [next_agent |-> agent, step_name |-> step, reason |-> reason]

\* check_next_step that skips the name-and-race step once completed_steps
\* lists it.
check_next_step_reads_completed_steps(st) ==
  LET sheet == get_sheet(st)
      agent ==
        IF (~Truthy(sheet.name) \/ ~Truthy(sheet.race))
           /\ "race_agent" \notin Range(sheet.completed_steps)
        THEN "race_agent"
        ELSE IF \A a \in Abilities : sheet.ability_scores[a] = 10
        THEN "ability_score_agent"
        ELSE IF ~Truthy(sheet.character_class) THEN "class_agent"
        ELSE IF ~Truthy(sheet.background) THEN "background_agent"
        ELSE IF ~Truthy(sheet.spellcasting_ability) THEN "spellcasting_agent"
        ELSE IF Len(sheet.spellbook) < 6 THEN "spellbook_agent"
        ELSE IF Len(sheet.cantrips_known) < 3 THEN "cantrip_agent"
        ELSE IF sheet.prepared_spells = <<>> THEN "prepared_spells_agent"
        ELSE IF sheet.armor_class = None THEN "derived_stats_agent"
        ELSE "validation_agent"
  IN Success(StepResult(agent, "", ""), st)

\* check_next_step that takes six scores of 10 for chosen scores once a class
\* has been set.
check_next_step_tens_chosen_after_class(st) ==
  LET sheet == get_sheet(st)
      agent ==
        IF ~Truthy(sheet.name) \/ ~Truthy(sheet.race) THEN "race_agent"
        ELSE IF (\A a \in Abilities : sheet.ability_scores[a] = 10)
                /\ ~Truthy(sheet.character_class)
        THEN "ability_score_agent"
        ELSE IF ~Truthy(sheet.character_class) THEN "class_agent"
        ELSE IF ~Truthy(sheet.background) THEN "background_agent"
        ELSE IF ~Truthy(sheet.spellcasting_ability) THEN "spellcasting_agent"
        ELSE IF Len(sheet.spellbook) < 6 THEN "spellbook_agent"
        ELSE IF Len(sheet.cantrips_known) < 3 THEN "cantrip_agent"
        ELSE IF sheet.prepared_spells = <<>> THEN "prepared_spells_agent"
        ELSE IF sheet.armor_class = None THEN "derived_stats_agent"
        ELSE "validation_agent"
  IN Success(StepResult(agent, "", ""), st)

\* check_next_step with the cantrip check placed before the spellbook check.
check_next_step_cantrips_first(st) ==
  LET sheet == get_sheet(st)
      agent ==
        IF ~Truthy(sheet.name) \/ ~Truthy(sheet.race) THEN "race_agent"
        ELSE IF \A a \in Abilities : sheet.ability_scores[a] = 10
        THEN "ability_score_agent"
        ELSE IF ~Truthy(sheet.character_class) THEN "class_agent"
        ELSE IF ~Truthy(sheet.background) THEN "background_agent"
        ELSE IF ~Truthy(sheet.spellcasting_ability) THEN "spellcasting_agent"
        ELSE IF Len(sheet.cantrips_known) < 3 THEN "cantrip_agent"
        ELSE IF Len(sheet.spellbook) < 6 THEN "spellbook_agent"
        ELSE IF sheet.prepared_spells = <<>> THEN "prepared_spells_agent"
        ELSE IF sheet.armor_class = None THEN "derived_stats_agent"
        ELSE "validation_agent"
  IN Success(StepResult(agent, "", ""), st)

\* check_next_step: the first unmet condition, in the fixed order.
check_next_step(st) ==
  LET sheet == get_sheet(st)
  IN IF ~Truthy(sheet.name) \/ ~Truthy(sheet.race)
     THEN Success(StepResult("race_agent", "Name & Race Selection",
                             "Character needs a name and race"), st)
     ELSE IF \A a \in Abilities : sheet.ability_scores[a] = 10
     THEN Success(StepResult("ability_score_agent", "Ability Scores",
                             "Ability scores haven't been set yet"), st)
     ELSE IF ~Truthy(sheet.character_class)
     THEN Success(StepResult("class_agent", "Class Setup",
                             "Need to set up the Wizard class and choose skills"), st)
     ELSE IF ~Truthy(sheet.background)
     THEN Success(StepResult("background_agent", "Background Selection",
                             "Need to choose a background"), st)
     ELSE IF ~Truthy(sheet.spellcasting_ability)
     THEN Success(StepResult("spellcasting_agent", "Spellcasting Setup",
                             "Need to configure spellcasting stats"), st)
     ELSE IF Len(sheet.spellbook) < 6
     THEN Success(StepResult("spellbook_agent", "Spellbook Selection",
                             "Need to choose 6 level-1 spells for the spellbook"), st)
     ELSE IF Len(sheet.cantrips_known) < 3
     THEN Success(StepResult("cantrip_agent", "Cantrip Selection",
                             "Need to choose 3 cantrips"), st)
     ELSE IF sheet.prepared_spells = <<>>
     THEN Success(StepResult("prepared_spells_agent", "Prepared Spells",
                             "Need to choose which spells to prepare"), st)
     ELSE IF sheet.armor_class = None
     THEN Success(StepResult("derived_stats_agent", "Final Stats Calculation",
                             "Need to calculate derived stats (AC, initiative, etc.)"), st)
     ELSE Success(StepResult("validation_agent", "Final Validation & Summary",
                             "All steps complete, ready for final validation"), st)

\* The ten steps in the order the coordinator lists them.
StepOrder ==
  << "race_agent", "ability_score_agent", "class_agent", "background_agent",
     "spellcasting_agent", "spellbook_agent", "cantrip_agent",
     "prepared_spells_agent", "derived_stats_agent", "validation_agent" >>

StepPos(agent) == CHOOSE i \in DOMAIN StepOrder : StepOrder[i] = agent

NextAgent(st) == check_next_step(st).result[1].next_agent

Position(st) == StepPos(NextAgent(st))

---------------------------------------------------------------------------
(* The mutators *)

\* set_character_name that starts from a fresh sheet instead of the stored one.
set_character_name_fresh_sheet(st, name) ==
  Success(<<"Character name set", name>>,
          save_sheet([DefaultSheet EXCEPT !.name = Some(name)]))

\* set_character_name
set_character_name(st, name) ==
  LET sheet == get_sheet(st)
      new == [sheet EXCEPT !.name = Some(name)]
  IN Success(<<"Character name set", name>>, save_sheet(new))

\* set_race
set_race(st, race_name, size, speed, darkvision, racial_traits) ==
  LET sheet == get_sheet(st)
      new == [sheet EXCEPT !.race = Some(race_name),
                           !.size = Some(size),
                           !.speed = speed,
                           !.darkvision = darkvision,
                           !.racial_traits = racial_traits]
  IN Success(<<"Race set", race_name>>, save_sheet(new))

\* set_ability_scores that also discards the stored spellcasting numbers.
set_ability_scores_clears_spellcasting(st, scores) ==
  LET sheet == get_sheet(st)
      new == [sheet EXCEPT !.ability_scores = AbilityScoresOf(scores),
                           !.spell_save_dc = None,
                           !.spell_attack_bonus = None,
                           !.max_prepared_spells = None]
  IN Success(<<"Ability scores set", "">>, save_sheet(new))

\* set_ability_scores: only the six base scores are written.
set_ability_scores(st, scores) ==
  LET sheet == get_sheet(st)
      new == [sheet EXCEPT !.ability_scores = AbilityScoresOf(scores)]
  IN Success(<<"Ability scores set", "">>, save_sheet(new))

valid_wizard_skills ==
  <<"Arcana", "History", "Insight", "Investigation", "Medicine", "Religion">>

WizardHitDieAverage == 6

\* max(1, 6 + CON modifier of the total score)
WizardHp(sheet) == Max(1, WizardHitDieAverage + get_total_modifier(sheet, "constitution"))

\* set_class_wizard that checks the skills but not their number.
set_class_wizard_any_number(st, skill_proficiencies) ==
  LET bad == {i \in DOMAIN skill_proficiencies :
                skill_proficiencies[i] \notin Range(valid_wizard_skills)}
  IN IF bad # {}
     THEN Failure("is not a valid wizard skill",
                  skill_proficiencies[CHOOSE i \in bad : \A j \in bad : i <= j], st)
     ELSE
       LET sheet == get_sheet(st)
           s1 == [sheet EXCEPT
                    !.character_class = Some("Wizard"),
                    !.level = 1,
                    !.hit_die = Some("d6"),
                    !.saving_throw_proficiencies = <<"Intelligence", "Wisdom">>,
                    !.weapon_proficiencies =
                       <<"Daggers", "Darts", "Slings", "Quarterstaffs", "Light crossbows">>,
                    !.armor_proficiencies = <<>>,
                    !.skill_proficiencies =
                       ListOfSet(BagToSet(sheet.skill_proficiencies)
                                 \cup Range(skill_proficiencies))]
           new == [s1 EXCEPT !.max_hp = Some(WizardHp(s1))]
       IN Success(<<"Class set to Wizard", new.max_hp[1], skill_proficiencies>>,
                  save_sheet(new))

\* set_class_wizard: the skills are checked one by one, then their number;
\* only then is the sheet loaded, written and saved.
set_class_wizard(st, skill_proficiencies) ==
  LET bad == {i \in DOMAIN skill_proficiencies :
                skill_proficiencies[i] \notin Range(valid_wizard_skills)}
  IN IF bad # {}
     THEN Failure("is not a valid wizard skill",
                  skill_proficiencies[CHOOSE i \in bad : \A j \in bad : i <= j], st)
     ELSE IF Len(skill_proficiencies) # 2
     THEN Failure("Wizard must choose exactly 2 skill proficiencies", "", st)
     ELSE
       LET sheet == get_sheet(st)
           s1 == [sheet EXCEPT
                    !.character_class = Some("Wizard"),
                    !.level = 1,
                    !.hit_die = Some("d6"),
                    !.saving_throw_proficiencies = <<"Intelligence", "Wisdom">>,
                    !.weapon_proficiencies =
                       <<"Daggers", "Darts", "Slings", "Quarterstaffs", "Light crossbows">>,
                    !.armor_proficiencies = <<>>,
                    !.skill_proficiencies =
                       ListOfSet(BagToSet(sheet.skill_proficiencies)
                                 \cup Range(skill_proficiencies))]
           new == [s1 EXCEPT !.max_hp = Some(WizardHp(s1))]
       IN Success(<<"Class set to Wizard", new.max_hp[1], skill_proficiencies>>,
                  save_sheet(new))

\* set_background that appends the skills to the list it finds.
set_background_appends_skills(st, background_name, skill_proficiencies, tool_proficiency, origin_feat, ability_bonuses) ==
  LET sheet == get_sheet(st)
      new == [sheet EXCEPT
                !.background = Some(background_name),
                !.origin_feat = Some(origin_feat),
                !.background_ability_bonuses = ability_bonuses,
                !.skill_proficiencies =
                   sheet.skill_proficiencies (+) SetToBag(Range(skill_proficiencies)),
                !.tool_proficiencies =
                   IF tool_proficiency # ""
                      /\ tool_proficiency \notin Range(sheet.tool_proficiencies)
                   THEN Append(sheet.tool_proficiencies, tool_proficiency)
                   ELSE sheet.tool_proficiencies]
  IN Success(<<"Background set", background_name>>, save_sheet(new))

\* set_background: no validation; max_hp and the spellcasting numbers are
\* not touched.
set_background(st, background_name, skill_proficiencies, tool_proficiency, origin_feat, ability_bonuses) ==
  LET sheet == get_sheet(st)
      new == [sheet EXCEPT
                !.background = Some(background_name),
                !.origin_feat = Some(origin_feat),
                !.background_ability_bonuses = ability_bonuses,
                !.skill_proficiencies =
                   ListOfSet(BagToSet(sheet.skill_proficiencies)
                             \cup Range(skill_proficiencies)),
                !.tool_proficiencies =
                   IF tool_proficiency # ""
                      /\ tool_proficiency \notin Range(sheet.tool_proficiencies)
                   THEN Append(sheet.tool_proficiencies, tool_proficiency)
                   ELSE sheet.tool_proficiencies]
  IN Success(<<"Background set", background_name>>, save_sheet(new))

\* configure_spellcasting that takes the modifier of the base Intelligence.
configure_spellcasting_base_intelligence(st) ==
  LET sheet == get_sheet(st)
  IN IF sheet.character_class # Some("Wizard")
     THEN Failure("Character must be a Wizard to configure spellcasting", "", st)
     ELSE
       LET int_mod == get_modifier(sheet.ability_scores, "intelligence")
           new == [sheet EXCEPT
                     !.spellcasting_ability = Some("Intelligence"),
                     !.spell_slots = <<2>>,
                     !.spell_save_dc = Some(8 + sheet.proficiency_bonus + int_mod),
                     !.spell_attack_bonus = Some(sheet.proficiency_bonus + int_mod),
                     !.max_prepared_spells = Some(Max(1, int_mod + sheet.level))]
       IN Success(<<"Spellcasting configured", new.spell_save_dc[1],
                    new.spell_attack_bonus[1], new.max_prepared_spells[1]>>,
                  save_sheet(new))

\* configure_spellcasting without the floor of one prepared spell.
configure_spellcasting_without_floor(st) ==
  LET sheet == get_sheet(st)
  IN IF sheet.character_class # Some("Wizard")
     THEN Failure("Character must be a Wizard to configure spellcasting", "", st)
     ELSE
       LET int_mod == get_total_modifier(sheet, "intelligence")
           new == [sheet EXCEPT
                     !.spellcasting_ability = Some("Intelligence"),
                     !.spell_slots = <<2>>,
                     !.spell_save_dc = Some(8 + sheet.proficiency_bonus + int_mod),
                     !.spell_attack_bonus = Some(sheet.proficiency_bonus + int_mod),
                     !.max_prepared_spells = Some(int_mod + sheet.level)]
       IN Success(<<"Spellcasting configured", new.spell_save_dc[1],
                    new.spell_attack_bonus[1], new.max_prepared_spells[1]>>,
                  save_sheet(new))

\* configure_spellcasting
configure_spellcasting(st) ==
  LET sheet == get_sheet(st)
  IN IF sheet.character_class # Some("Wizard")
     THEN Failure("Character must be a Wizard to configure spellcasting", "", st)
     ELSE
       LET int_mod == get_total_modifier(sheet, "intelligence")
           new == [sheet EXCEPT
                     !.spellcasting_ability = Some("Intelligence"),
                     !.spell_slots = <<2>>,      \* the dict {1: 2}
                     !.spell_save_dc = Some(8 + sheet.proficiency_bonus + int_mod),
                     !.spell_attack_bonus = Some(sheet.proficiency_bonus + int_mod),
                     !.max_prepared_spells = Some(Max(1, int_mod + sheet.level))]
       IN Success(<<"Spellcasting configured", new.spell_save_dc[1],
                    new.spell_attack_bonus[1], new.max_prepared_spells[1]>>,
                  save_sheet(new))

MaxCantrips == 3
MaxSpellbook == 6

\* add_cantrip without the class check.
add_cantrip_any_class(st, spell_name) ==
  LET spell_result == find_spell_by_name(spell_name)
  IN IF spell_result.status = "failure"
     THEN [status |-> spell_result.status, message |-> spell_result.message,
           result |-> spell_result.result, state |-> st]
     ELSE
       LET spell == spell_result.result[1]
           sheet == get_sheet(st)
       IN IF spell.level # 0
          THEN Failure("is not a cantrip", spell.name, st)
          ELSE IF Len(sheet.cantrips_known) >= MaxCantrips
          THEN Failure("Cannot add more than 3 cantrips at level 1", "", st)
          ELSE IF spell.name \in Range(sheet.cantrips_known)
          THEN Failure("is already known", spell.name, st)
          ELSE Success(<<"Added cantrip", spell.name>>,
                       save_sheet([sheet EXCEPT !.cantrips_known =
                                     Append(sheet.cantrips_known, spell.name)]))

\* add_cantrip that stores the name as it was asked for.
add_cantrip_keeps_query(st, spell_name) ==
  LET spell_result == find_spell_by_name(spell_name)
  IN IF spell_result.status = "failure"
     THEN [status |-> spell_result.status, message |-> spell_result.message,
           result |-> spell_result.result, state |-> st]
     ELSE
       LET spell == spell_result.result[1]
           sheet == get_sheet(st)
       IN IF spell.level # 0
          THEN Failure("is not a cantrip", spell.name, st)
          ELSE IF "wizard" \notin spell.classes
          THEN Failure("is not a wizard spell", spell.name, st)
          ELSE IF Len(sheet.cantrips_known) >= MaxCantrips
          THEN Failure("Cannot add more than 3 cantrips at level 1", "", st)
          ELSE IF spell.name \in Range(sheet.cantrips_known)
          THEN Failure("is already known", spell.name, st)
          ELSE Success(<<"Added cantrip", spell.name>>,
                       save_sheet([sheet EXCEPT !.cantrips_known =
                                     Append(sheet.cantrips_known, spell_name)]))

\* add_cantrip that appends and saves before it looks for a duplicate.
add_cantrip_saves_early(st, spell_name) ==
  LET spell_result == find_spell_by_name(spell_name)
  IN IF spell_result.status = "failure"
     THEN [status |-> spell_result.status, message |-> spell_result.message,
           result |-> spell_result.result, state |-> st]
     ELSE
       LET spell == spell_result.result[1]
           sheet == get_sheet(st)
           saved == save_sheet([sheet EXCEPT !.cantrips_known =
                                  Append(sheet.cantrips_known, spell.name)])
       IN IF spell.level # 0
          THEN Failure("is not a cantrip", spell.name, st)
          ELSE IF "wizard" \notin spell.classes
          THEN Failure("is not a wizard spell", spell.name, st)
          ELSE IF Len(sheet.cantrips_known) >= MaxCantrips
          THEN Failure("Cannot add more than 3 cantrips at level 1", "", st)
          ELSE IF spell.name \in Range(sheet.cantrips_known)
          THEN Failure("is already known", spell.name, saved)
          ELSE Success(<<"Added cantrip", spell.name>>, saved)

\* add_cantrip
add_cantrip(st, spell_name) ==
  LET spell_result == find_spell_by_name(spell_name)
  IN IF spell_result.status = "failure"
     THEN [status |-> spell_result.status, message |-> spell_result.message,
           result |-> spell_result.result, state |-> st]
     ELSE
       LET spell == spell_result.result[1]
           sheet == get_sheet(st)
       IN IF spell.level # 0
          THEN Failure("is not a cantrip", spell.name, st)
          ELSE IF "wizard" \notin spell.classes
          THEN Failure("is not a wizard spell", spell.name, st)
          ELSE IF Len(sheet.cantrips_known) >= MaxCantrips
          THEN Failure("Cannot add more than 3 cantrips at level 1", "", st)
          ELSE IF spell.name \in Range(sheet.cantrips_known)
          THEN Failure("is already known", spell.name, st)
          ELSE Success(<<"Added cantrip", spell.name>>,
                       save_sheet([sheet EXCEPT !.cantrips_known =
                                     Append(sheet.cantrips_known, spell.name)]))

\* add_spellbook_spell without the level check.
add_spellbook_spell_any_level(st, spell_name) ==
  LET spell_result == find_spell_by_name(spell_name)
  IN IF spell_result.status = "failure"
     THEN [status |-> spell_result.status, message |-> spell_result.message,
           result |-> spell_result.result, state |-> st]
     ELSE
       LET spell == spell_result.result[1]
           sheet == get_sheet(st)
       IN IF "wizard" \notin spell.classes
          THEN Failure("is not a wizard spell", spell.name, st)
          ELSE IF Len(sheet.spellbook) >= MaxSpellbook
          THEN Failure("Cannot add more than 6 spells to spellbook at level 1", "", st)
          ELSE IF spell.name \in Range(sheet.spellbook)
          THEN Failure("is already in spellbook", spell.name, st)
          ELSE Success(<<"Added to spellbook", spell.name>>,
                       save_sheet([sheet EXCEPT !.spellbook =
                                     Append(sheet.spellbook, spell.name)]))

\* add_spellbook_spell
add_spellbook_spell(st, spell_name) ==
  LET spell_result == find_spell_by_name(spell_name)
  IN IF spell_result.status = "failure"
     THEN [status |-> spell_result.status, message |-> spell_result.message,
           result |-> spell_result.result, state |-> st]
     ELSE
       LET spell == spell_result.result[1]
           sheet == get_sheet(st)
       IN IF spell.level # 1
          THEN Failure("must be level 1", spell.name, st)
          ELSE IF "wizard" \notin spell.classes
          THEN Failure("is not a wizard spell", spell.name, st)
          ELSE IF Len(sheet.spellbook) >= MaxSpellbook
          THEN Failure("Cannot add more than 6 spells to spellbook at level 1", "", st)
          ELSE IF spell.name \in Range(sheet.spellbook)
          THEN Failure("is already in spellbook", spell.name, st)
          ELSE Success(<<"Added to spellbook", spell.name>>,
                       save_sheet([sheet EXCEPT !.spellbook =
                                     Append(sheet.spellbook, spell.name)]))

\* prepare_spell without the test for a spell that is already prepared.
prepare_spell_repeats(st, spell_name) ==
  LET sheet == get_sheet(st)
  IN IF spell_name \notin Range(sheet.spellbook)
     THEN Failure("is not in your spellbook", spell_name, st)
     ELSE IF sheet.max_prepared_spells = None
     THEN Failure("Spellcasting has not been configured yet", "", st)
     ELSE IF Len(sheet.prepared_spells) >= sheet.max_prepared_spells[1]
     THEN Failure("Cannot prepare more spells", "", st)
     ELSE Success(<<"Prepared", spell_name>>,
                  save_sheet([sheet EXCEPT !.prepared_spells =
                                Append(sheet.prepared_spells, spell_name)]))

\* prepare_spell without the look-up in the spellbook.
prepare_spell_any_name(st, spell_name) ==
  LET sheet == get_sheet(st)
  IN IF sheet.max_prepared_spells = None
     THEN Failure("Spellcasting has not been configured yet", "", st)
     ELSE IF Len(sheet.prepared_spells) >= sheet.max_prepared_spells[1]
     THEN Failure("Cannot prepare more spells", "", st)
     ELSE IF spell_name \in Range(sheet.prepared_spells)
     THEN Failure("is already prepared", spell_name, st)
     ELSE Success(<<"Prepared", spell_name>>,
                  save_sheet([sheet EXCEPT !.prepared_spells =
                                Append(sheet.prepared_spells, spell_name)]))

\* prepare_spell whose limit test lets one spell too many through.
prepare_spell_cap_off_by_one(st, spell_name) ==
  LET sheet == get_sheet(st)
  IN IF spell_name \notin Range(sheet.spellbook)
     THEN Failure("is not in your spellbook", spell_name, st)
     ELSE IF sheet.max_prepared_spells = None
     THEN Failure("Spellcasting has not been configured yet", "", st)
     ELSE IF Len(sheet.prepared_spells) > sheet.max_prepared_spells[1]
     THEN Failure("Cannot prepare more spells", "", st)
     ELSE IF spell_name \in Range(sheet.prepared_spells)
     THEN Failure("is already prepared", spell_name, st)
     ELSE Success(<<"Prepared", spell_name>>,
                  save_sheet([sheet EXCEPT !.prepared_spells =
                                Append(sheet.prepared_spells, spell_name)]))

\* prepare_spell that puts the newly prepared spell first.
prepare_spell_newest_first(st, spell_name) ==
  LET sheet == get_sheet(st)
  IN IF spell_name \notin Range(sheet.spellbook)
     THEN Failure("is not in your spellbook", spell_name, st)
     ELSE IF sheet.max_prepared_spells = None
     THEN Failure("Spellcasting has not been configured yet", "", st)
     ELSE IF Len(sheet.prepared_spells) >= sheet.max_prepared_spells[1]
     THEN Failure("Cannot prepare more spells", "", st)
     ELSE IF spell_name \in Range(sheet.prepared_spells)
     THEN Failure("is already prepared", spell_name, st)
     ELSE Success(<<"Prepared", spell_name>>,
                  save_sheet([sheet EXCEPT !.prepared_spells =
                                <<spell_name>> \o sheet.prepared_spells]))

\* prepare_spell: the name is compared as given, without name resolution.
prepare_spell(st, spell_name) ==
  LET sheet == get_sheet(st)
  IN IF spell_name \notin Range(sheet.spellbook)
     THEN Failure("is not in your spellbook", spell_name, st)
     ELSE IF sheet.max_prepared_spells = None
     THEN Failure("Spellcasting has not been configured yet", "", st)
     ELSE IF Len(sheet.prepared_spells) >= sheet.max_prepared_spells[1]
     THEN Failure("Cannot prepare more spells", "", st)
     ELSE IF spell_name \in Range(sheet.prepared_spells)
     THEN Failure("is already prepared", spell_name, st)
     ELSE Success(<<"Prepared", spell_name>>,
                  save_sheet([sheet EXCEPT !.prepared_spells =
                                Append(sheet.prepared_spells, spell_name)]))

\* compute_derived_stats that leaves the proficiency bonus out of the
\* passive perception.
compute_derived_stats_no_proficiency(st) ==
  LET sheet == get_sheet(st)
      dex_mod == get_total_modifier(sheet, "dexterity")
      wis_mod == get_total_modifier(sheet, "wisdom")
      new == [sheet EXCEPT
                !.armor_class = Some(10 + dex_mod),
                !.initiative = Some(dex_mod),
                !.passive_perception = Some(10 + wis_mod),
                !.max_hp = IF sheet.character_class = Some("Wizard")
                           THEN Some(WizardHp(sheet))
                           ELSE sheet.max_hp]
  IN Success([armor_class |-> new.armor_class, initiative |-> new.initiative,
              passive_perception |-> new.passive_perception, max_hp |-> new.max_hp],
             save_sheet(new))

\* compute_derived_stats that adds the Constitution modifier to the hit
\* points it finds.
compute_derived_stats_adds_to_hp(st) ==
  LET sheet == get_sheet(st)
      dex_mod == get_total_modifier(sheet, "dexterity")
      wis_mod == get_total_modifier(sheet, "wisdom")
      perception_bonus ==
        IF BagIn("Perception", sheet.skill_proficiencies)
        THEN wis_mod + sheet.proficiency_bonus
        ELSE wis_mod
      found == IF sheet.max_hp = None THEN WizardHitDieAverage ELSE sheet.max_hp[1]
      new == [sheet EXCEPT
                !.armor_class = Some(10 + dex_mod),
                !.initiative = Some(dex_mod),
                !.passive_perception = Some(10 + perception_bonus),
                !.max_hp = IF sheet.character_class = Some("Wizard")
                           THEN Some(Max(1, found
                                            + get_total_modifier(sheet, "constitution")))
                           ELSE sheet.max_hp]
  IN Success([armor_class |-> new.armor_class, initiative |-> new.initiative,
              passive_perception |-> new.passive_perception, max_hp |-> new.max_hp],
             save_sheet(new))

\* compute_derived_stats that answers the statistics without storing them.
compute_derived_stats_without_save(st) ==
  LET sheet == get_sheet(st)
      dex_mod == get_total_modifier(sheet, "dexterity")
      wis_mod == get_total_modifier(sheet, "wisdom")
  IN Success([armor_class |-> Some(10 + dex_mod), initiative |-> Some(dex_mod),
              passive_perception |-> Some(10 + wis_mod), max_hp |-> sheet.max_hp],
             st)

\* compute_derived_stats
compute_derived_stats(st) ==
  LET sheet == get_sheet(st)
      dex_mod == get_total_modifier(sheet, "dexterity")
      wis_mod == get_total_modifier(sheet, "wisdom")
      perception_bonus ==
        IF BagIn("Perception", sheet.skill_proficiencies)
        THEN wis_mod + sheet.proficiency_bonus
        ELSE wis_mod
      new == [sheet EXCEPT
                !.armor_class = Some(10 + dex_mod),
                !.initiative = Some(dex_mod),
                !.passive_perception = Some(10 + perception_bonus),
                !.max_hp = IF sheet.character_class = Some("Wizard")
                           THEN Some(WizardHp(sheet))
                           ELSE sheet.max_hp]
  IN Success([armor_class |-> new.armor_class, initiative |-> new.initiative,
              passive_perception |-> new.passive_perception, max_hp |-> new.max_hp],
             save_sheet(new))

\* get_character_sheet
\* A reader that stores the sheet it read, default sheet included.
get_character_sheet_creating(st) ==
  Success(model_dump(get_sheet(st)), save_sheet(get_sheet(st)))

get_character_sheet(st) == Success(model_dump(get_sheet(st)), st)

\* A validator that stops at the first violated check.
validation_errors_fail_fast(sheet) ==
  LET totals == total_ability_scores(sheet)
      Err(cond, field) == IF cond THEN <<field>> ELSE <<>>
      ability_errors[i \in 0..6] ==
        IF i = 0 THEN <<>>
        ELSE ability_errors[i - 1]
             \o Err(totals[AbilityNames[i]] < 1 \/ totals[AbilityNames[i]] > 30,
                    <<"ability_scores", AbilityNames[i]>>)
      errors ==
        Err(~Truthy(sheet.race), <<"race">>)
        \o Err(~Truthy(sheet.character_class), <<"character_class">>)
        \o Err(~Truthy(sheet.background), <<"background">>)
        \o ability_errors[6]
        \o Err(Len(sheet.cantrips_known) # 3, <<"cantrips_known">>)
        \o Err(Len(sheet.spellbook) # 6, <<"spellbook">>)
        \o Err(sheet.max_prepared_spells # None
               /\ Len(sheet.prepared_spells) > sheet.max_prepared_spells[1],
               <<"prepared_spells">>)
        \o Err(sheet.armor_class = None, <<"armor_class">>)
        \o Err(sheet.max_hp = None, <<"max_hp">>)
  IN IF errors = <<>> THEN <<>> ELSE <<Head(errors)>>

\* A validator that also asks for a prepared spell.
validation_errors_requires_prepared(sheet) ==
  LET totals == total_ability_scores(sheet)
      Err(cond, field) == IF cond THEN <<field>> ELSE <<>>
      ability_errors[i \in 0..6] ==
        IF i = 0 THEN <<>>
        ELSE ability_errors[i - 1]
             \o Err(totals[AbilityNames[i]] < 1 \/ totals[AbilityNames[i]] > 30,
                    <<"ability_scores", AbilityNames[i]>>)
      errors ==
        Err(~Truthy(sheet.race), <<"race">>)
        \o Err(~Truthy(sheet.character_class), <<"character_class">>)
        \o Err(~Truthy(sheet.background), <<"background">>)
        \o ability_errors[6]
        \o Err(Len(sheet.cantrips_known) # 3, <<"cantrips_known">>)
        \o Err(Len(sheet.spellbook) # 6, <<"spellbook">>)
        \o Err(sheet.max_prepared_spells # None
               /\ Len(sheet.prepared_spells) > sheet.max_prepared_spells[1],
               <<"prepared_spells">>)
        \o Err(sheet.prepared_spells = <<>>, <<"prepared_spells">>)
        \o Err(sheet.armor_class = None, <<"armor_class">>)
        \o Err(sheet.max_hp = None, <<"max_hp">>)
  IN errors

\* The checks of validate_character_sheet: every violated check adds one
\* error, named by the path of its field.
validation_errors(sheet) ==
  LET totals == total_ability_scores(sheet)
      Err(cond, field) == IF cond THEN <<field>> ELSE <<>>
      ability_errors[i \in 0..6] ==
        IF i = 0 THEN <<>>
        ELSE ability_errors[i - 1]
             \o Err(totals[AbilityNames[i]] < 1 \/ totals[AbilityNames[i]] > 30,
                    <<"ability_scores", AbilityNames[i]>>)
  IN Err(~Truthy(sheet.race), <<"race">>)
     \o Err(~Truthy(sheet.character_class), <<"character_class">>)
     \o Err(~Truthy(sheet.background), <<"background">>)
     \o ability_errors[6]
     \o Err(Len(sheet.cantrips_known) # 3, <<"cantrips_known">>)
     \o Err(Len(sheet.spellbook) # 6, <<"spellbook">>)
     \o Err(sheet.max_prepared_spells # None
            /\ Len(sheet.prepared_spells) > sheet.max_prepared_spells[1],
            <<"prepared_spells">>)
     \o Err(sheet.armor_class = None, <<"armor_class">>)
     \o Err(sheet.max_hp = None, <<"max_hp">>)

\* validate_character_sheet: nothing is written.  A failure carries both a
\* message and the result.
validate_character_sheet(st) ==
  LET sheet == get_sheet(st)
      errors == validation_errors(sheet)
  IN IF errors # <<>>
     THEN [status |-> "failure",
           message |-> Some(<<"Validation failed", Len(errors)>>),
           result |-> Some([errors |-> errors, valid |-> FALSE]),
           state |-> st]
     ELSE Success([valid |-> TRUE,
                   summary |->
                     [name |-> IF Truthy(sheet.name) THEN sheet.name[1]
                               ELSE "Unnamed Wizard",
                      race |-> sheet.race,
                      class |-> <<sheet.character_class, sheet.level>>,
                      background |-> sheet.background,
                      hp |-> sheet.max_hp,
                      ac |-> sheet.armor_class,
                      abilities |-> total_ability_scores(sheet),
                      cantrips |-> sheet.cantrips_known,
                      spellbook |-> sheet.spellbook,
                      prepared_spells |-> sheet.prepared_spells]],
                  st)

---------------------------------------------------------------------------
(* The arguments of the tools.  The ...Args sets are the arguments the      *)
(* properties quantify over in every reachable state; the ...Calls sets are *)
(* the arguments the actions are taken with.                                *)

NameArgs == {"Fizban", ""}

RaceInput(n, sz, sp, dv, tr) ==
  [race_name |-> n, size |-> sz, speed |-> sp, darkvision |-> dv, racial_traits |-> tr]

Gnome == RaceInput("Gnome", "small", 25, Some(60), <<"Gnome Cunning">>)

RaceArgs ==
  { Gnome,
    RaceInput("Human", "medium", 30, None, <<"Versatile">>),
    RaceInput("", "large", 40, None, <<>>) }

AllTen == <<10, 10, 10, 10, 10, 10>>
StandardArray == <<8, 14, 13, 15, 12, 10>>
LowScores == <<7, 9, -3, 7, 31, 0>>

ScoreArgs == {AllTen, StandardArray, LowScores}

SkillArgs ==
  { <<"Arcana", "History">>, <<"Insight", "Religion">>, <<"Arcana", "Arcana">>,
    <<"Arcana">>, <<"Arcana", "Athletics">>, <<"Athletics", "Arcana", "History">>,
    <<"Insight", "Medicine", "Religion">>, <<>> }

BackgroundInput(n, sk, tool, feat, bonus) ==
  [background_name |-> n, skill_proficiencies |-> sk, tool_proficiency |-> tool,
   origin_feat |-> feat, ability_bonuses |-> bonus]

Sage ==
  BackgroundInput("Sage", <<"Arcana", "History">>, "Calligrapher's Supplies",
                  "Magic Initiate (Wizard)", [intelligence |-> 2, constitution |-> 1])

BackgroundArgs ==
  { Sage,
    BackgroundInput("Scribe", <<"Investigation", "Perception">>,
                    "Calligrapher's Supplies", "Skilled",
                    [dexterity |-> 1, wisdom |-> 2]),
    BackgroundInput("", <<>>, "", "", EmptyDict) }

\* Every catalogue name, the differently-cased and misspelt queries the
\* resolver accepts, and a query that matches nothing.
SpellArgs ==
  Range(SpellNames)
    \cup {"fire bolt", "magic missile", "shield", "firebll", "Mage", "NonexistentSpell123"}

NameCalls == {"Fizban"}
RaceCalls == {Gnome}
ScoreCalls == {StandardArray}
SkillCalls ==
  {<<"Arcana", "History">>, <<"Arcana">>, <<"Arcana", "Athletics">>,
   <<"Insight", "Medicine", "Religion">>}
BackgroundCalls == {Sage}

\* How many wizard cantrips, level-1 wizard spells and names to prepare the
\* caller proposes; new names are proposed in store order.
CantripsOffered == 4
SpellsOffered == 7
PrepareOffered == 2

WizardSpellNames(level) ==
  LET sel == SelectSeq(Spells, LAMBDA sp : sp.level = level /\ "wizard" \in sp.classes)
  IN [i \in DOMAIN sel |-> sel[i].name]

FirstN(s, n) == SubSeq(s, 1, IF n < Len(s) THEN n ELSE Len(s))

\* The next name of `names` not yet in `have` (none when all are there).
NextNew(names, have) ==
  LET fresh == {i \in DOMAIN names : names[i] \notin Range(have)}
  IN IF fresh = {} THEN {}
     ELSE {names[CHOOSE i \in fresh : \A j \in fresh : i <= j]}

\* A repeated proposal: the first and the last entry of the list.
Repeats(have) == IF have = <<>> THEN {} ELSE {have[1], have[Len(have)]}

CantripCalls(sheet) ==
  NextNew(FirstN(WizardSpellNames(0), CantripsOffered), sheet.cantrips_known)
  \cup Repeats(sheet.cantrips_known)
  \cup {"fire bolt", "Magic Missile", "Sacred Flame", "NonexistentSpell123"}

SpellbookCalls(sheet) ==
  NextNew(FirstN(WizardSpellNames(1), SpellsOffered), sheet.spellbook)
  \cup Repeats(sheet.spellbook)
  \cup {"magic missile", "Fire Bolt", "firebll", "Cure Wounds", "NonexistentSpell123"}

PrepareCalls(sheet) ==
  NextNew(FirstN(WizardSpellNames(1), PrepareOffered), sheet.prepared_spells)
  \cup Repeats(sheet.prepared_spells)
  \cup {"magic missile", "Fire Bolt"}

\* Filters of list_spells: absent, valid, and outside the enumeration.
ClassArgs == {None, Some("wizard"), Some("cleric"), Some("artificer")}
SchoolArgs == {None, Some("evocation"), Some("divination"), Some("invalid")}
MaxLevelArgs == {None, Some(0), Some(1)}
RitualArgs == {None, Some(TRUE), Some(FALSE)}

ListSpellsCalls ==
  { <<None, None, None, None>>,
    <<Some("wizard"), Some("evocation"), Some(1), Some(FALSE)>>,
    <<None, Some("invalid"), None, None>> }

FindSpellCalls == {"Fireball", "firebll", "NonexistentSpell123"}

---------------------------------------------------------------------------
(* The state machine: one action per tool *)

\* The coordinator, the root agent, holds control when a conversation starts.
Coordinator == "wizard_builder"

Init ==
  /\ state = None
  /\ other_state = None
  /\ lookup = None
  /\ in_flight = <<None, None>>
  /\ control = [agent |-> Coordinator, turn |-> 0, applied |-> 0, told |-> None]

SetCharacterName ==
  \E n \in NameCalls : state' = set_character_name(state, n).state
      /\ UNCHANGED <<other_state, lookup, in_flight, control>>

SetRace ==
  \E r \in RaceCalls :
    state' = set_race(state, r.race_name, r.size, r.speed, r.darkvision,
                      r.racial_traits).state
      /\ UNCHANGED <<other_state, lookup, in_flight, control>>

SetAbilityScores ==
  \E v \in ScoreCalls : state' = set_ability_scores(state, v).state
      /\ UNCHANGED <<other_state, lookup, in_flight, control>>

SetClassWizard ==
  \E sk \in SkillCalls : state' = set_class_wizard(state, sk).state
      /\ UNCHANGED <<other_state, lookup, in_flight, control>>

SetBackground ==
  \E b \in BackgroundCalls :
    state' = set_background(state, b.background_name, b.skill_proficiencies,
                            b.tool_proficiency, b.origin_feat,
                            b.ability_bonuses).state
      /\ UNCHANGED <<other_state, lookup, in_flight, control>>

ConfigureSpellcasting == state' = configure_spellcasting(state).state
      /\ UNCHANGED <<other_state, lookup, in_flight, control>>

AddCantrip ==
  \E q \in CantripCalls(get_sheet(state)) : state' = add_cantrip(state, q).state
      /\ UNCHANGED <<other_state, lookup, in_flight, control>>

AddSpellbookSpell ==
  \E q \in SpellbookCalls(get_sheet(state)) :
    state' = add_spellbook_spell(state, q).state
      /\ UNCHANGED <<other_state, lookup, in_flight, control>>

PrepareSpell ==
  \E q \in PrepareCalls(get_sheet(state)) : state' = prepare_spell(state, q).state
      /\ UNCHANGED <<other_state, lookup, in_flight, control>>

ComputeDerivedStats == state' = compute_derived_stats(state).state
      /\ UNCHANGED <<other_state, lookup, in_flight, control>>

CheckNextStep == state' = check_next_step(state).state
      /\ UNCHANGED <<other_state, lookup, in_flight, control>>

GetCharacterSheet == state' = get_character_sheet(state).state
      /\ UNCHANGED <<other_state, lookup, in_flight, control>>

ValidateCharacterSheet == state' = validate_character_sheet(state).state
      /\ UNCHANGED <<other_state, lookup, in_flight, control>>

\* The look-up tools read the catalogue and leave the session alone.
FindSpellByName ==
  \E q \in FindSpellCalls :
    find_spell_by_name(q).status \in {"success", "failure"} /\ UNCHANGED vars

ListSpells ==
  \E c \in ListSpellsCalls :
    list_spells(c[1], c[2], c[3], c[4]).status \in {"success", "failure"}
    /\ UNCHANGED vars

ListWizardCantrips == list_wizard_cantrips.status = "success" /\ UNCHANGED vars

ListWizardLevel1Spells ==
  list_wizard_level1_spells.status = "success" /\ UNCHANGED vars

Next ==
  \/ SetCharacterName
  \/ SetRace
  \/ SetAbilityScores
  \/ SetClassWizard
  \/ SetBackground
  \/ ConfigureSpellcasting
  \/ AddCantrip
  \/ AddSpellbookSpell
  \/ PrepareSpell
  \/ ComputeDerivedStats
  \/ CheckNextStep
  \/ GetCharacterSheet
  \/ ValidateCharacterSheet
  \/ FindSpellByName
  \/ ListSpells
  \/ ListWizardCantrips
  \/ ListWizardLevel1Spells

Spec == Init /\ [][Next]_vars

\* The ten mutators alone: the tools that write the sheet.
NextMutators ==
  \/ SetCharacterName
  \/ SetRace
  \/ SetAbilityScores
  \/ SetClassWizard
  \/ SetBackground
  \/ ConfigureSpellcasting
  \/ AddCantrip
  \/ AddSpellbookSpell
  \/ PrepareSpell
  \/ ComputeDerivedStats

SpecMutators == Init /\ [][NextMutators]_vars

\* The thirteen tools that are handed the sheet: the mutators, the
\* sequencer, the sheet reader and the validator.
NextSheet ==
  \/ NextMutators
  \/ CheckNextStep
  \/ GetCharacterSheet
  \/ ValidateCharacterSheet

SpecSheet == Init /\ [][NextSheet]_vars

---------------------------------------------------------------------------
(* Two sessions.  Every tool is handed the ToolContext of the session that  *)
(* calls it and reads and writes the sheet under that context's state only. *)

SessionIds == {1, 2}

\* tool_context.state of each session, by session
sessions == <<state, other_state>>

\* tool_context.state[CHARACTER_SHEET_KEY] = doc, on the context of session s
session_write(ss, s, doc) == [ss EXCEPT ![s] = doc]

\* What the sessions store after the tool answering `out` was called with the
\* context of session s.
CalledIn(s, out) == session_write(sessions, s, out.state)

\* set_race takes the size as a string: the sessions set a large race.
Goliath == RaceInput("Goliath", "large", 35, None, <<"Powerful Build">>)

\* The arguments the tools are called with under the context of session s.
\* Session 1 makes a choice the tool accepts at every step.  Session 2
\* keeps the default scores and asks for a skill list and for spells the
\* tools refuse, so that it never holds a class or a spell.
SessionNameCalls(s) == NameCalls
SessionRaceCalls(s) == {Goliath}
SessionScoreCalls(s) == IF s = 1 THEN {StandardArray} ELSE {AllTen}
SessionSkillCalls(s) == IF s = 1 THEN {<<"Arcana", "History">>} ELSE {<<"Arcana">>}
SessionBackgroundCalls(s) == BackgroundCalls
SessionCantripCalls(s) == IF s = 1 THEN {"Fire Bolt"} ELSE {"Sacred Flame"}
SessionSpellbookCalls(s) == IF s = 1 THEN {"Magic Missile"} ELSE {"Cure Wounds"}
SessionPrepareCalls(s) == IF s = 1 THEN {"Magic Missile"} ELSE {"Shield"}

SessionSetCharacterName ==
  \E s \in SessionIds :
    \E n \in SessionNameCalls(s) :
      LET written == CalledIn(s, set_character_name(sessions[s], n))
      IN state' = written[1] /\ other_state' = written[2]
           /\ UNCHANGED <<lookup, in_flight, control>>

SessionSetRace ==
  \E s \in SessionIds :
    \E r \in SessionRaceCalls(s) :
      LET written == CalledIn(s, set_race(sessions[s], r.race_name, r.size, r.speed,
                                          r.darkvision, r.racial_traits))
      IN state' = written[1] /\ other_state' = written[2]
           /\ UNCHANGED <<lookup, in_flight, control>>

SessionSetAbilityScores ==
  \E s \in SessionIds :
    \E v \in SessionScoreCalls(s) :
      LET written == CalledIn(s, set_ability_scores(sessions[s], v))
      IN state' = written[1] /\ other_state' = written[2]
           /\ UNCHANGED <<lookup, in_flight, control>>

SessionSetClassWizard ==
  \E s \in SessionIds :
    \E sk \in SessionSkillCalls(s) :
      LET written == CalledIn(s, set_class_wizard(sessions[s], sk))
      IN state' = written[1] /\ other_state' = written[2]
           /\ UNCHANGED <<lookup, in_flight, control>>

SessionSetBackground ==
  \E s \in SessionIds :
    \E b \in SessionBackgroundCalls(s) :
      LET written == CalledIn(s, set_background(sessions[s], b.background_name,
                                                b.skill_proficiencies, b.tool_proficiency,
                                                b.origin_feat, b.ability_bonuses))
      IN state' = written[1] /\ other_state' = written[2]
           /\ UNCHANGED <<lookup, in_flight, control>>

SessionConfigureSpellcasting ==
  \E s \in SessionIds :
    LET written == CalledIn(s, configure_spellcasting(sessions[s]))
    IN state' = written[1] /\ other_state' = written[2]
         /\ UNCHANGED <<lookup, in_flight, control>>

SessionAddCantrip ==
  \E s \in SessionIds :
    \E q \in SessionCantripCalls(s) :
      LET written == CalledIn(s, add_cantrip(sessions[s], q))
      IN state' = written[1] /\ other_state' = written[2]
           /\ UNCHANGED <<lookup, in_flight, control>>

SessionAddSpellbookSpell ==
  \E s \in SessionIds :
    \E q \in SessionSpellbookCalls(s) :
      LET written == CalledIn(s, add_spellbook_spell(sessions[s], q))
      IN state' = written[1] /\ other_state' = written[2]
           /\ UNCHANGED <<lookup, in_flight, control>>

SessionPrepareSpell ==
  \E s \in SessionIds :
    \E q \in SessionPrepareCalls(s) :
      LET written == CalledIn(s, prepare_spell(sessions[s], q))
      IN state' = written[1] /\ other_state' = written[2]
           /\ UNCHANGED <<lookup, in_flight, control>>

SessionComputeDerivedStats ==
  \E s \in SessionIds :
    LET written == CalledIn(s, compute_derived_stats(sessions[s]))
    IN state' = written[1] /\ other_state' = written[2]
         /\ UNCHANGED <<lookup, in_flight, control>>

SessionValidateCharacterSheet ==
  \E s \in SessionIds :
    LET written == CalledIn(s, validate_character_sheet(sessions[s]))
    IN state' = written[1] /\ other_state' = written[2]
         /\ UNCHANGED <<lookup, in_flight, control>>

SessionCheckNextStep ==
  \E s \in SessionIds :
    LET written == CalledIn(s, check_next_step(sessions[s]))
    IN state' = written[1] /\ other_state' = written[2]
         /\ UNCHANGED <<lookup, in_flight, control>>

SessionGetCharacterSheet ==
  \E s \in SessionIds :
    LET written == CalledIn(s, get_character_sheet(sessions[s]))
    IN state' = written[1] /\ other_state' = written[2]
         /\ UNCHANGED <<lookup, in_flight, control>>

NextSessions ==
  \/ SessionSetCharacterName
  \/ SessionSetRace
  \/ SessionSetAbilityScores
  \/ SessionSetClassWizard
  \/ SessionSetBackground
  \/ SessionConfigureSpellcasting
  \/ SessionAddCantrip
  \/ SessionAddSpellbookSpell
  \/ SessionPrepareSpell
  \/ SessionComputeDerivedStats
  \/ SessionValidateCharacterSheet
  \/ SessionCheckNextStep
  \/ SessionGetCharacterSheet

SpecSessions == Init /\ [][NextSessions]_vars

---------------------------------------------------------------------------
(* The look-up tools on their own: each call is recorded with its answer.   *)

RaceQueries == {"Elf", "elf", "elv", "Gnome", "Human", "NonexistentRace123"}
BackgroundQueries == {"Acolyte", "acolyt", "Sage", "sage", "NonexistentBackground123"}

\* The pairs compare_spells is called with: names that resolve and names
\* that do not, in both places.
CompareQueries ==
  {"Fireball", "firebll", "Lightning Bolt", "shield", "NonexistentSpell123", "Zzyzx"}

SizeArgs == {None, Some("small"), Some("medium"), Some("huge")}
DarkvisionArgs == {None, Some(TRUE), Some(FALSE)}
AbilityArgs == {None, Some("dexterity"), Some("any"), Some("luck")}
BackgroundAbilityArgs == {None, Some("Charisma"), Some("Intelligence"), Some("luck")}
BackgroundSkillArgs == {None, Some("Stealth"), Some("stealth"), Some("Juggling")}

\* The feat names list_backgrounds_by_feat is called with: a whole name, a
\* part of two names in another case, and a name no background grants.
FeatQueries == {"Alert", "skilled", "MAGIC INITIATE", "Magic Initiate (Wizard)", "Lucky"}

\* The exact-level and concentration filters of the spell agent's list_spells.
LevelArgs == {None, Some(0), Some(1), Some(3)}
ConcentrationArgs == {None, Some(TRUE), Some(FALSE)}

\* The calls of the spell agent's list_spells: no filter, each filter alone,
\* several together, and a school and a class outside the enumerations.
SpellAgentListSpellsCalls ==
  { <<None, None, None, None, None, None>>,
    <<Some("wizard"), None, None, None, None, None>>,
    <<None, Some("evocation"), None, None, None, None>>,
    <<None, None, Some(3), None, None, None>>,
    <<None, None, None, Some(1), None, None>>,
    <<None, None, None, None, Some(TRUE), None>>,
    <<None, None, None, None, None, Some(TRUE)>>,
    <<Some("wizard"), Some("evocation"), None, Some(3), None, None>>,
    <<Some("wizard"), Some("evocation"), None, Some(1), Some(FALSE), None>>,
    <<Some("cleric"), None, Some(1), Some(0), None, Some(FALSE)>>,
    <<None, Some("invalid"), None, None, None, None>>,
    <<Some("invalid"), None, None, None, None, None>> }

\* The record of a call: the tool, its arguments and what it answered.
Answer(tool, args, out) == Some([tool |-> tool, args |-> args, out |-> out])

LookupFindSpellByName ==
  \E q \in SpellArgs : lookup' = Answer("find_spell_by_name", <<q>>, find_spell_by_name(q))
      /\ UNCHANGED <<state, other_state, in_flight, control>>

LookupFindRaceByName ==
  \E q \in RaceQueries : lookup' = Answer("find_race_by_name", <<q>>, find_race_by_name(q))
      /\ UNCHANGED <<state, other_state, in_flight, control>>

LookupFindBackgroundByName ==
  \E q \in BackgroundQueries :
    lookup' = Answer("find_background_by_name", <<q>>, find_background_by_name(q))
      /\ UNCHANGED <<state, other_state, in_flight, control>>

LookupCompareSpells ==
  \E a \in CompareQueries, b \in CompareQueries :
    lookup' = Answer("compare_spells", <<a, b>>, compare_spells(a, b))
      /\ UNCHANGED <<state, other_state, in_flight, control>>

LookupListSchools ==
  lookup' = Answer("list_schools", <<>>, list_schools)
    /\ UNCHANGED <<state, other_state, in_flight, control>>

LookupListClasses ==
  lookup' = Answer("list_classes", <<>>, list_classes)
    /\ UNCHANGED <<state, other_state, in_flight, control>>

LookupSpellAgentListSchools ==
  lookup' = Answer("spell_agent.list_schools", <<>>, spell_agent_list_schools)
    /\ UNCHANGED <<state, other_state, in_flight, control>>

LookupSpellAgentListClasses ==
  lookup' = Answer("spell_agent.list_classes", <<>>, spell_agent_list_classes)
    /\ UNCHANGED <<state, other_state, in_flight, control>>

LookupListSpells ==
  \E c \in ClassArgs, sc \in SchoolArgs, m \in MaxLevelArgs, r \in RitualArgs :
    lookup' = Answer("list_spells", <<c, sc, m, r>>, list_spells(c, sc, m, r))
      /\ UNCHANGED <<state, other_state, in_flight, control>>

LookupSpellAgentListSpells ==
  \E c \in SpellAgentListSpellsCalls :
    lookup' = Answer("spell_agent.list_spells", c,
                     spell_agent_list_spells(c[1], c[2], c[3], c[4], c[5], c[6]))
      /\ UNCHANGED <<state, other_state, in_flight, control>>

LookupListRaces ==
  \E sz \in SizeArgs, dv \in DarkvisionArgs, ab \in AbilityArgs :
    lookup' = Answer("list_races", <<sz, dv, ab>>, list_races(sz, dv, ab))
      /\ UNCHANGED <<state, other_state, in_flight, control>>

LookupListRacesByAbility ==
  \E ab \in AbilityArgs \ {None} :
    lookup' = Answer("list_races_by_ability", <<ab[1]>>, list_races_by_ability(ab[1]))
      /\ UNCHANGED <<state, other_state, in_flight, control>>

LookupListBackgrounds ==
  \E ab \in BackgroundAbilityArgs, sk \in BackgroundSkillArgs :
    lookup' = Answer("list_backgrounds", <<ab, sk>>, list_backgrounds(ab, sk))
      /\ UNCHANGED <<state, other_state, in_flight, control>>

LookupListBackgroundsByFeat ==
  \E q \in FeatQueries :
    lookup' = Answer("list_backgrounds_by_feat", <<q>>, list_backgrounds_by_feat(q))
      /\ UNCHANGED <<state, other_state, in_flight, control>>

LookupListAllSkills ==
  lookup' = Answer("list_all_skills", <<>>, list_all_skills)
    /\ UNCHANGED <<state, other_state, in_flight, control>>

LookupListAllFeats ==
  lookup' = Answer("list_all_feats", <<>>, list_all_feats)
    /\ UNCHANGED <<state, other_state, in_flight, control>>

LookupGetAbilityBonuses ==
  \E q \in RaceQueries :
    lookup' = Answer("get_ability_bonuses", <<q>>, get_ability_bonuses(q))
      /\ UNCHANGED <<state, other_state, in_flight, control>>

LookupListSizes ==
  lookup' = Answer("list_sizes", <<>>, list_sizes)
    /\ UNCHANGED <<state, other_state, in_flight, control>>

NextLookups ==
  \/ LookupFindSpellByName
  \/ LookupFindRaceByName
  \/ LookupFindBackgroundByName
  \/ LookupCompareSpells
  \/ LookupListSchools
  \/ LookupListClasses
  \/ LookupSpellAgentListSchools
  \/ LookupSpellAgentListClasses
  \/ LookupListSpells
  \/ LookupSpellAgentListSpells
  \/ LookupListRaces
  \/ LookupListRacesByAbility
  \/ LookupListBackgrounds
  \/ LookupListBackgroundsByFeat
  \/ LookupListAllSkills
  \/ LookupListAllFeats
  \/ LookupGetAbilityBonuses
  \/ LookupListSizes

SpecLookups == Init /\ [][NextLookups]_vars

---------------------------------------------------------------------------
(* The dice roller.  A notation is the sequence of its characters; the      *)
(* results of random.randint are drawn by the caller of the model.          *)

\* str.strip(): leading and trailing whitespace removed.
Strip(chars) ==
  LET inked == {i \in DOMAIN chars : chars[i] \notin Whitespace}
  IN IF inked = {} THEN <<>>
     ELSE SubSeq(chars, CHOOSE i \in inked : \A j \in inked : i <= j,
                 CHOOSE i \in inked : \A j \in inked : j <= i)

\* The value of a decimal digit: its distance from the zero of its range.
DigitValue(c) == c - (CHOOSE z \in DigitZeros : z <= c /\ c <= z + 9)

\* int() of a run of digits.
RECURSIVE IntOf(_)
IntOf(digits) ==
  IF digits = <<>> THEN 0
  ELSE 10 * IntOf(SubSeq(digits, 1, Len(digits) - 1)) + DigitValue(digits[Len(digits)])

\* The length of the longest run of digits of chars that starts at `from`.
RECURSIVE DigitRun(_, _)
DigitRun(chars, from) ==
  IF from <= Len(chars) /\ chars[from] \in Digits
  THEN 1 + DigitRun(chars, from + 1)
  ELSE 0

\* `$` at place i of s: the end of s, or the newline that ends s.
AtEnd(s, i) == i = Len(s) + 1 \/ (i = Len(s) /\ s[i] = 10)

\* re.match(r"^(\d*)d(\d+)([+-]\d+)?$", s): the three groups (an absent
\* group is the empty sequence), or None when s does not match.
dice_match(s) ==
  LET n1 == DigitRun(s, 1)
      d == n1 + 1
      n2 == DigitRun(s, d + 1)
      sign == d + n2 + 1
      n3 == DigitRun(s, sign + 1)
  IN IF ~(d <= Len(s) /\ s[d] = Ord("d") /\ n2 >= 1) THEN None
     ELSE IF AtEnd(s, sign)
     THEN Some(<<SubSeq(s, 1, n1), SubSeq(s, d + 1, d + n2), <<>>>>)
     ELSE IF s[sign] \in {Ord("+"), Ord("-")} /\ n3 >= 1 /\ AtEnd(s, sign + n3 + 1)
     THEN Some(<<SubSeq(s, 1, n1), SubSeq(s, d + 1, d + n2),
                 SubSeq(s, sign, sign + n3)>>)
     ELSE None

\* int() of the modifier group: a sign and a run of digits.
SignedIntOf(group) ==
  IF group[1] = Ord("-") THEN 0 - IntOf(Tail(group)) ELSE IntOf(Tail(group))

RECURSIVE SumOf(_)
SumOf(rolls) == IF rolls = <<>> THEN 0 ELSE Head(rolls) + SumOf(Tail(rolls))

\* What roll_dice reads from the notation before it rolls: None for a
\* notation it refuses, else the number of dice, the sides and the modifier.
dice_parse(dice_notation) ==
  LET match == dice_match(LowerChars(Strip(dice_notation)))
  IN IF match = None THEN None
     ELSE Some([num_dice |-> IF match[1][1] # <<>> THEN IntOf(match[1][1]) ELSE 1,
                die_sides |-> IntOf(match[1][2]),
                modifier |-> IF match[1][3] # <<>> THEN SignedIntOf(match[1][3])
                             ELSE 0])

\* roll_dice that accepts a notation of no dice.
roll_dice_accepts_no_dice(dice_notation, randint) ==
  LET parsed == dice_parse(dice_notation)
  IN IF parsed = None
     THEN [status |-> "failure",
           message |-> Some(<<"Invalid dice notation", dice_notation>>),
           result |-> None, rolls |-> <<>>]
     ELSE IF parsed[1].die_sides < 1
     THEN [status |-> "failure",
           message |-> Some(<<"Number of dice and die sides must be at least 1.">>),
           result |-> None, rolls |-> <<>>]
     ELSE LET rolls == SubSeq(randint, 1, parsed[1].num_dice)
          IN [status |-> "success", message |-> None,
              result |-> Some(SumOf(rolls) + parsed[1].modifier), rolls |-> rolls]

\* roll_dice; randint holds the values random.randint(1, die_sides) returns,
\* call by call, and `rolls` of the answer the values that were drawn.
roll_dice(dice_notation, randint) ==
  LET parsed == dice_parse(dice_notation)
  IN IF parsed = None
     THEN [status |-> "failure",
           message |-> Some(<<"Invalid dice notation", dice_notation>>),
           result |-> None, rolls |-> <<>>]
     ELSE IF parsed[1].num_dice < 1 \/ parsed[1].die_sides < 1
     THEN [status |-> "failure",
           message |-> Some(<<"Number of dice and die sides must be at least 1.">>),
           result |-> None, rolls |-> <<>>]
     ELSE LET rolls == SubSeq(randint, 1, parsed[1].num_dice)
          IN [status |-> "success", message |-> None,
              result |-> Some(SumOf(rolls) + parsed[1].modifier), rolls |-> rolls]

\* The notations rolled: the ones of the docstring and the test, upper case,
\* several digits, strings the pattern refuses, and notations padded with
\* whitespace or written with digits outside ASCII.
AsciiNotations ==
  { <<"2", "d", "6", "+", "1">>, <<"2", "d", "6", "+", "3">>, <<"d", "2", "0">>,
    <<"3", "d", "4", "-", "2">>, <<"2", "D", "6">>,
    <<"1", "d", "4", "-", "1", "0">>, <<"1", "2", "d", "1">>, <<"0", "2", "d", "0", "3">>,
    <<"0", "d", "6">>, <<"2", "d", "0">>, <<"0", "d", "0", "+", "5">>,
    <<"d">>, <<"2", "d">>, <<"2", "x", "6">>, <<"2", "d", "6", "+">>, <<>>,
    <<"2", "d", "6", " ", "+", "1">>, <<"1", "d", "6", "+", "-", "1">>,
    <<"-", "1", "d", "6">>, <<"2", "d", "6", "+", "1", "d">>, <<"6">> }

\* " d4" and a newline; "2d6" and a carriage return; a carriage return and
\* "d4"; "d4" and a form feed; a no-break space and "d6"; "2d6", a newline
\* and "1"; the Arabic-Indic two and "d6"; "2d" and the fullwidth six;
\* "2d6+" and the Devanagari three; "2", the fullwidth D and "6"; the Kawi
\* two and "d6"; "1d" and the Nag Mundari four (digits of Unicode 15.0).
OtherNotations ==
  { Codes(<<" ", "d", "4">>) \o <<10>>, Codes(<<"2", "d", "6">>) \o <<13>>,
    <<13>> \o Codes(<<"d", "4">>), Codes(<<"d", "4">>) \o <<12>>,
    <<160>> \o Codes(<<"d", "6">>), Codes(<<"2", "d", "6">>) \o <<10, 49>>,
    <<1634>> \o Codes(<<"d", "6">>), Codes(<<"2", "d">>) \o <<65302>>,
    Codes(<<"2", "d", "6", "+">>) \o <<2409>>, <<50, 65316, 54>>,
    <<73554>> \o Codes(<<"d", "6">>), Codes(<<"1", "d">>) \o <<124148>> }

DiceNotations == {Codes(n) : n \in AsciiNotations} \cup OtherNotations

\* The values random.randint(1, die_sides) can return for the dice of the
\* notation: every sequence of num_dice values of 1..die_sides, and no value
\* where the notation is refused.
RandintDraws(dice_notation) ==
  LET parsed == dice_parse(dice_notation)
  IN IF parsed = None THEN {<<>>}
     ELSE IF parsed[1].die_sides < 1 THEN {<<>>}
     ELSE [1..parsed[1].num_dice -> 1..parsed[1].die_sides]

RollDice ==
  \E n \in DiceNotations :
    \E randint \in RandintDraws(n) :
      lookup' = Answer("roll_dice", <<n>>, roll_dice(n, randint))
        /\ UNCHANGED <<state, other_state, in_flight, control>>

\* roll_d6 and roll_d20 of the dice agent: the value randint(1, 6) or
\* randint(1, 20) returned, as it is.
roll_d6(randint) == randint

roll_d20(randint) == randint

RollD6 ==
  \E randint \in 1..6 :
    lookup' = Answer("dice_agent.roll_d6", <<>>, roll_d6(randint))
      /\ UNCHANGED <<state, other_state, in_flight, control>>

RollD20 ==
  \E randint \in 1..20 :
    lookup' = Answer("dice_agent.roll_d20", <<>>, roll_d20(randint))
      /\ UNCHANGED <<state, other_state, in_flight, control>>

NextDice == RollDice \/ RollD6 \/ RollD20

SpecDice == Init /\ [][NextDice]_vars

---------------------------------------------------------------------------
(* The coordinator's loop (agent.py 46-59).  The agent in control takes one *)
(* step at a time, and each step is a call of one of its tools or a         *)
(* transfer: the coordinator calls check_next_step, and in a later step     *)
(* transfers to the agent it was told; that agent applies the mutators of   *)
(* its step as its instruction tells, with arguments the tools accept, and  *)
(* in a later step transfers back.  Between these steps the agent in        *)
(* control may read the sheet or call a look-up tool of its own any number  *)
(* of times.  `control` holds the agent in control, the number of steps of  *)
(* its instruction it has taken since control was handed to it (turn), the  *)
(* number of mutator calls applied in all (applied) and the agent           *)
(* check_next_step last named to the coordinator (told); `lookup` holds the *)
(* last answer the agent in control was given by a tool that changes        *)
(* nothing.                                                                 *)

\* The choices the sub-agents apply: the standard array as recommended or
\* with a low Intelligence, and rolled scores with an Intelligence of 18.
FlowNames == {"Fizban"}
FlowRaces == {Gnome}
LowIntelligence == <<15, 14, 13, 8, 12, 10>>
HighIntelligence == <<8, 14, 13, 18, 12, 10>>
FlowScores == {StandardArray, LowIntelligence, HighIntelligence}
FlowSkills == {<<"Arcana", "History">>}
FlowBackgrounds == {b \in BackgroundArgs : b.background_name # ""}

\* A spell not chosen yet: the first or the last of the legal ones left.
FlowSpellChoices(names, have) ==
  LET fresh == {i \in DOMAIN names : names[i] \notin Range(have)}
  IN IF fresh = {} THEN {}
     ELSE {names[CHOOSE i \in fresh : \A j \in fresh : i <= j],
           names[CHOOSE i \in fresh : \A j \in fresh : j <= i]}

\* The mutator calls of a run that prepares one spell: name, race, scores,
\* class, background, spellcasting, the spellbook, the cantrips, the
\* prepared spell and the derived statistics.
MutatorCallsNeeded == 6 + MaxSpellbook + MaxCantrips + 2

\* The mutator calls of a run that prepares every spell of the book.
MutatorCallsAtMost == MutatorCallsNeeded + MaxSpellbook - 1

Applied == control.applied

Holds(agent) == control.agent = agent

\* transfer_to_agent(agent)
Handed(agent) == [control EXCEPT !.agent = agent, !.turn = 0]

\* The agent in control has applied one more mutator.
Called == [control EXCEPT !.turn = @ + 1, !.applied = @ + 1]

\* The state a call leaves when the tool answers success; no state when it
\* answers an error (the agents go on only after a successful call).
Stored(out) == IF out.status = "success" THEN {out.state} ELSE {}

\* Step 1 of the coordinator's loop: it calls check_next_step and is told
\* the agent of the next step.
CoordinatorChecks ==
  /\ Holds(Coordinator)
  /\ control.turn = 0
  /\ state' = check_next_step(state).state
  /\ control' = [control EXCEPT !.turn = 1, !.told = Some(NextAgent(state))]
  /\ UNCHANGED <<other_state, lookup, in_flight>>

\* Step 3 of the coordinator's loop: it transfers to the agent it was told,
\* which starts with no answer of its own.
CoordinatorTransfers ==
  /\ Holds(Coordinator)
  /\ control.turn = 1
  /\ control' = Handed(control.told[1])
  /\ lookup' = None
  /\ UNCHANGED <<state, other_state, in_flight>>

\* What the instruction of the agent in control asks for before it transfers
\* back: the name and the race set; the one mutator of the step applied; all 6
\* spells and all 3 cantrips added; the spells the user chose prepared, one
\* at least.  The validation agent is the final step and keeps control.
StepApplied ==
  CASE Holds("race_agent") -> control.turn = 2
    [] Holds("spellbook_agent") -> Len(get_sheet(state).spellbook) = MaxSpellbook
    [] Holds("cantrip_agent") -> Len(get_sheet(state).cantrips_known) = MaxCantrips
    [] Holds("prepared_spells_agent") -> control.turn >= 1
    [] Holds("validation_agent") -> FALSE
    [] Holds(Coordinator) -> FALSE
    [] OTHER -> control.turn = 1

\* The agent in control transfers back to the coordinator; the answers it
\* was given stay with it.
TransferBack ==
  /\ StepApplied
  /\ control' = Handed(Coordinator)
  /\ lookup' = None
  /\ UNCHANGED <<state, other_state, in_flight>>

DriveSetCharacterName ==
  /\ Holds("race_agent")
  /\ control.turn = 0
  /\ \E n \in FlowNames :
       \E stored \in Stored(set_character_name(state, n)) :
         /\ state' = stored
         /\ control' = Called
         /\ UNCHANGED <<other_state, lookup, in_flight>>

DriveSetRace ==
  /\ Holds("race_agent")
  /\ control.turn = 1
  /\ \E r \in FlowRaces :
       \E stored \in Stored(set_race(state, r.race_name, r.size, r.speed,
                                        r.darkvision, r.racial_traits)) :
         /\ state' = stored
         /\ control' = Called
         /\ UNCHANGED <<other_state, lookup, in_flight>>

DriveSetAbilityScores ==
  /\ Holds("ability_score_agent")
  /\ control.turn = 0
  /\ \E v \in FlowScores :
       \E stored \in Stored(set_ability_scores(state, v)) :
         /\ state' = stored
         /\ control' = Called
         /\ UNCHANGED <<other_state, lookup, in_flight>>

DriveSetClassWizard ==
  /\ Holds("class_agent")
  /\ control.turn = 0
  /\ \E sk \in FlowSkills :
       \E stored \in Stored(set_class_wizard(state, sk)) :
         /\ state' = stored
         /\ control' = Called
         /\ UNCHANGED <<other_state, lookup, in_flight>>

DriveSetBackground ==
  /\ Holds("background_agent")
  /\ control.turn = 0
  /\ \E b \in FlowBackgrounds :
       \E stored \in Stored(set_background(state, b.background_name,
                                              b.skill_proficiencies,
                                              b.tool_proficiency, b.origin_feat,
                                              b.ability_bonuses)) :
         /\ state' = stored
         /\ control' = Called
         /\ UNCHANGED <<other_state, lookup, in_flight>>

DriveConfigureSpellcasting ==
  /\ Holds("spellcasting_agent")
  /\ control.turn = 0
  /\ \E stored \in Stored(configure_spellcasting(state)) :
       /\ state' = stored
       /\ control' = Called
       /\ UNCHANGED <<other_state, lookup, in_flight>>

DriveAddSpellbookSpell ==
  /\ Holds("spellbook_agent")
  /\ \E q \in NextNew(WizardSpellNames(1), get_sheet(state).spellbook) :
       \E stored \in Stored(add_spellbook_spell(state, q)) :
         /\ state' = stored
         /\ control' = Called
         /\ UNCHANGED <<other_state, lookup, in_flight>>

DriveAddCantrip ==
  /\ Holds("cantrip_agent")
  /\ \E q \in FlowSpellChoices(WizardSpellNames(0), get_sheet(state).cantrips_known) :
       \E stored \in Stored(add_cantrip(state, q)) :
         /\ state' = stored
         /\ control' = Called
         /\ UNCHANGED <<other_state, lookup, in_flight>>

DrivePrepareSpell ==
  /\ Holds("prepared_spells_agent")
  /\ \E q \in NextNew(get_sheet(state).spellbook, get_sheet(state).prepared_spells) :
       \E stored \in Stored(prepare_spell(state, q)) :
         /\ state' = stored
         /\ control' = Called
         /\ UNCHANGED <<other_state, lookup, in_flight>>

DriveComputeDerivedStats ==
  /\ Holds("derived_stats_agent")
  /\ control.turn = 0
  /\ \E stored \in Stored(compute_derived_stats(state)) :
       /\ state' = stored
       /\ control' = Called
       /\ UNCHANGED <<other_state, lookup, in_flight>>

\* The validation agent reads the sheet; no mutator is applied.
DriveValidate ==
  /\ Holds("validation_agent")
  /\ control.turn = 0
  /\ state' = validate_character_sheet(state).state
  /\ control' = [control EXCEPT !.turn = @ + 1]
  /\ UNCHANGED <<other_state, lookup, in_flight>>

\* get_character_sheet is a tool of the coordinator and of every sub-agent:
\* the agent in control reads the sheet and goes on from where it was.
AgentReadsSheet ==
  /\ state' = get_character_sheet(state).state
  /\ lookup' = Answer("get_character_sheet", <<control.agent>>,
                       get_character_sheet(state).result)
  /\ UNCHANGED <<other_state, in_flight, control>>

\* The look-up tools of each agent, called as its instruction tells: the
\* races and the race chosen, a roll of "3d6" for a score, the backgrounds
\* and the one chosen, the lists of legal cantrips and spells and a spell by
\* its name.
AbilityScoreAgentLookups ==
  {Answer("roll_dice", <<Codes(<<"3", "d", "6">>)>>,
          roll_dice(Codes(<<"3", "d", "6">>), randint)) :
     randint \in {<<1, 1, 1>>, <<6, 5, 4>>}}

RaceAgentLookups ==
  {Answer("list_races", <<None, None, None>>, list_races(None, None, None)),
   Answer("find_race_by_name", <<"Gnome">>, find_race_by_name("Gnome"))}

BackgroundAgentLookups ==
  {Answer("list_backgrounds", <<None, None>>, list_backgrounds(None, None)),
   Answer("find_background_by_name", <<"Sage">>, find_background_by_name("Sage"))}

SpellbookAgentLookups ==
  {Answer("list_wizard_level1_spells", <<>>, list_wizard_level1_spells),
   Answer("find_spell_by_name", <<"Shield">>, find_spell_by_name("Shield"))}

CantripAgentLookups ==
  {Answer("list_wizard_cantrips", <<>>, list_wizard_cantrips),
   Answer("find_spell_by_name", <<"Fire Bolt">>, find_spell_by_name("Fire Bolt"))}

AgentLookups ==
  CASE Holds("race_agent") -> RaceAgentLookups
    [] Holds("ability_score_agent") -> AbilityScoreAgentLookups
    [] Holds("background_agent") -> BackgroundAgentLookups
    [] Holds("spellbook_agent") -> SpellbookAgentLookups
    [] Holds("cantrip_agent") -> CantripAgentLookups
    [] OTHER -> {}

AgentLooksUp ==
  \E answer \in AgentLookups :
    /\ lookup' = answer
    /\ UNCHANGED <<state, other_state, in_flight, control>>

\* The steps the instructions ask for: the coordinator's check and transfer,
\* the mutators of the step, the validation and the transfer back.
OrchestratorProgress ==
  \/ CoordinatorChecks
  \/ CoordinatorTransfers
  \/ TransferBack
  \/ DriveSetCharacterName
  \/ DriveSetRace
  \/ DriveSetAbilityScores
  \/ DriveSetClassWizard
  \/ DriveSetBackground
  \/ DriveConfigureSpellcasting
  \/ DriveAddSpellbookSpell
  \/ DriveAddCantrip
  \/ DrivePrepareSpell
  \/ DriveComputeDerivedStats
  \/ DriveValidate

NextOrchestrator ==
  \/ OrchestratorProgress
  \/ AgentReadsSheet
  \/ AgentLooksUp

\* Nothing obliges the agent in control to take its next step: the model
\* may answer the user, read the sheet again or stop.
SpecOrchestrator == Init /\ [][NextOrchestrator]_vars

---------------------------------------------------------------------------
(* Concurrent mutator calls on one session.  A mutator reads the stored    *)
(* document with _get_sheet, changes its own CharacterSheet object and     *)
(* writes the whole document back with _save_sheet; nothing is held        *)
(* between the read and the write, so another call may run in between.     *)
(* A call is modelled by two steps: StartCall is the read, FinishCall the  *)
(* checks, the change, the write and the answer.                           *)

Callers == {1, 2}

ConcurrentCalls ==
  { <<"set_character_name", "Fizban">>,
    <<"set_character_name", "Elminster">>,
    <<"add_cantrip", "Fire Bolt">>,
    <<"add_cantrip", "Light">> }

\* The tool of a call, run on the stored document st.
call_mutator(tool, arg, st) ==
  CASE tool = "set_character_name" -> set_character_name(st, arg)
    [] tool = "add_cantrip" -> add_cantrip(st, arg)

\* What the caller receives: the envelope without the model's state field.
Returned(out) == [status |-> out.status, message |-> out.message, result |-> out.result]

\* sheet = _get_sheet(tool_context): the call holds what is stored now.
StartCall ==
  \E c \in Callers : \E call \in ConcurrentCalls :
    /\ IF in_flight[c] = None THEN TRUE ELSE in_flight[c][1].out # None
    /\ in_flight' = [in_flight EXCEPT ![c] =
                       Some([tool |-> call[1], arg |-> call[2],
                             loaded |-> state, out |-> None])]
    /\ UNCHANGED <<state, other_state, lookup, control>>

\* A finish that reads the stored document afresh, as a call holding a lock
\* from its read to its write would.
FinishCallLocked ==
  \E c \in Callers :
    /\ in_flight[c] # None
    /\ in_flight[c][1].out = None
    /\ LET call == in_flight[c][1]
           out == call_mutator(call.tool, call.arg, state)
       IN /\ state' = IF out.status = "success" THEN out.state ELSE state
          /\ in_flight' = [in_flight EXCEPT ![c] =
                             Some([call EXCEPT !.out = Some(Returned(out))])]
          /\ lookup' = Answer(call.tool, <<call.arg>>,
                              [status |-> out.status, result |-> out.result,
                               caller |-> c, loaded |-> call.loaded,
                               before |-> state])
    /\ UNCHANGED <<other_state, control>>

\* The rest of the call: the checks and the change are made on the sheet
\* the call loaded, and on success _save_sheet replaces the stored document
\* by that sheet's dump; a failing call writes nothing.
FinishCall ==
  \E c \in Callers :
    /\ in_flight[c] # None
    /\ in_flight[c][1].out = None
    /\ LET call == in_flight[c][1]
           out == call_mutator(call.tool, call.arg, call.loaded)
       IN /\ state' = IF out.status = "success" THEN out.state ELSE state
          /\ in_flight' = [in_flight EXCEPT ![c] =
                             Some([call EXCEPT !.out = Some(Returned(out))])]
          /\ lookup' = Answer(call.tool, <<call.arg>>,
                              [status |-> out.status, result |-> out.result,
                               caller |-> c, loaded |-> call.loaded,
                               before |-> state])
    /\ UNCHANGED <<other_state, control>>

NextConcurrent == StartCall \/ FinishCall

SpecConcurrent == Init /\ [][NextConcurrent]_vars

---------------------------------------------------------------------------
(* Properties *)

sheet_now == get_sheet(state)

\* A string field that holds no value: None, or the empty string.
Unset(o) == o = None \/ o = Some("")

\* The nine conditions of the sequencer, in precedence order.
UnmetConditions(sheet) ==
  << Unset(sheet.name) \/ Unset(sheet.race),
     \A a \in Abilities : sheet.ability_scores[a] = 10,
     Unset(sheet.character_class),
     Unset(sheet.background),
     Unset(sheet.spellcasting_ability),
     Len(sheet.spellbook) < 6,
     Len(sheet.cantrips_known) < 3,
     Len(sheet.prepared_spells) = 0,
     sheet.armor_class = None >>

\* The position of the first unmet condition; 10 when all are met.
FirstUnmet(sheet) ==
  LET unmet == {i \in 1..9 : UnmetConditions(sheet)[i]}
  IN IF unmet = {} THEN 10 ELSE CHOOSE i \in unmet : \A j \in unmet : i <= j

\* The step reported for the stored state st is that of its first unmet
\* condition, and no later one.
FirstUnmetStepReported(st) ==
  LET out == check_next_step(st)
      unmet == UnmetConditions(get_sheet(st))
      first == FirstUnmet(get_sheet(st))
      pos == StepPos(out.result[1].next_agent)
  IN /\ out.status = "success"
     /\ out.result[1].next_agent = StepOrder[first]
     /\ \A i \in 1..9 : unmet[i] => pos <= i

\* C1: check_next_step reports the step of the first unmet condition in the
\* fixed order race, ability scores, class, background, spellcasting,
\* spellbook, cantrips, prepared spells, derived stats, else validation; a
\* later step is never reported while an earlier condition is unmet.  Checked
\* of every reachable sheet and of every sheet one name, race, ability-score
\* or background call away from it.
C1_FirstUnmetStepReported ==
  /\ FirstUnmetStepReported(state)
  /\ \A n \in NameArgs : FirstUnmetStepReported(set_character_name(state, n).state)
  /\ \A r \in RaceArgs :
       FirstUnmetStepReported(set_race(state, r.race_name, r.size, r.speed,
                                       r.darkvision, r.racial_traits).state)
  /\ \A v \in ScoreArgs : FirstUnmetStepReported(set_ability_scores(state, v).state)
  /\ \A b \in BackgroundArgs :
       FirstUnmetStepReported(
         set_background(state, b.background_name, b.skill_proficiencies,
                        b.tool_proficiency, b.origin_feat, b.ability_bonuses).state)

\* A complete sheet (validation_agent reported) whose earlier conditions are
\* all met.
C1_Witness ==
  /\ state # None
  /\ NextAgent(state) = "validation_agent"
  /\ Len(sheet_now.spellbook) = 6 /\ Len(sheet_now.cantrips_known) = 3

\* P(op, arg, out) for every mutator and every argument of the ...Args sets,
\* the spell tools with the given queries, applied to the stored state st.
ForAllMutatorCallsWith(st, queries, P(_, _, _)) ==
  /\ \A n \in NameArgs : P("set_character_name", n, set_character_name(st, n))
  /\ \A r \in RaceArgs :
       P("set_race", r, set_race(st, r.race_name, r.size, r.speed, r.darkvision,
                                 r.racial_traits))
  /\ \A v \in ScoreArgs : P("set_ability_scores", v, set_ability_scores(st, v))
  /\ \A sk \in SkillArgs : P("set_class_wizard", sk, set_class_wizard(st, sk))
  /\ \A b \in BackgroundArgs :
       P("set_background", b,
         set_background(st, b.background_name, b.skill_proficiencies,
                        b.tool_proficiency, b.origin_feat, b.ability_bonuses))
  /\ P("configure_spellcasting", <<>>, configure_spellcasting(st))
  /\ \A q \in queries : P("add_cantrip", q, add_cantrip(st, q))
  /\ \A q \in queries : P("add_spellbook_spell", q, add_spellbook_spell(st, q))
  /\ \A q \in queries : P("prepare_spell", q, prepare_spell(st, q))
  /\ P("compute_derived_stats", <<>>, compute_derived_stats(st))

\* P(op, arg, out) for every mutator and every argument of the ...Args sets.
ForAllMutatorCalls(st, P(_, _, _)) == ForAllMutatorCallsWith(st, SpellArgs, P)

\* C2 as stated: no successful mutator call lowers the position of the
\* reported step.
C2_NoBackwardTransition ==
  LET before == Position(state)
  IN ForAllMutatorCalls(state,
       LAMBDA op, arg, out :
         out.status = "success" => Position(out.state) >= before)

\* A call that itself leaves an earlier condition unmet: an empty name, race
\* name or background name, or six ability scores of 10.
ResetsEarlierStep(op, arg) ==
  \/ op = "set_character_name" /\ arg = ""
  \/ op = "set_race" /\ arg.race_name = ""
  \/ op = "set_background" /\ arg.background_name = ""
  \/ op = "set_ability_scores" /\ \A i \in 1..6 : arg[i] = 10

\* C2, amended: every successful mutator call other than set_character_name,
\* set_race or set_background with an empty name and set_ability_scores with
\* six 10s leaves the position of the reported step equal or higher.
C2_NoBackwardUnlessReset ==
  LET before == Position(state)
  IN ForAllMutatorCalls(state,
       LAMBDA op, arg, out :
         (out.status = "success" /\ ~ResetsEarlierStep(op, arg))
           => Position(out.state) >= before)

\* A sheet at the derived-stats step that compute_derived_stats moves on to
\* validation, and that set_ability_scores(10, ...) would send back to step 2.
C2_Witness ==
  /\ Position(state) = 9
  /\ Position(compute_derived_stats(state).state) = 10
  /\ Position(set_ability_scores(state, AllTen).state) = 2

\* C3: whenever set_class_wizard, configure_spellcasting, add_cantrip,
\* add_spellbook_spell or prepare_spell returns failure, the stored sheet is
\* exactly what it was before the call.
C3_FailureLeavesSheet ==
  /\ \A sk \in SkillArgs :
       LET out == set_class_wizard(state, sk)
       IN out.status = "failure" => out.state = state
  /\ LET out == configure_spellcasting(state)
     IN out.status = "failure" => out.state = state
  /\ \A q \in SpellArgs :
       /\ LET out == add_cantrip(state, q)
          IN out.status = "failure" => out.state = state
       /\ LET out == add_spellbook_spell(state, q)
          IN out.status = "failure" => out.state = state
       /\ LET out == prepare_spell(state, q)
          IN out.status = "failure" => out.state = state

\* A stored Wizard sheet with a cantrip on which each of the four checked
\* mutators has a failing call: a bad skill list, a repeated cantrip, a
\* cantrip offered to the spellbook, a spell that is not in the spellbook.
C3_Witness ==
  /\ state # None
  /\ sheet_now.character_class = Some("Wizard")
  /\ "Fire Bolt" \in Range(sheet_now.cantrips_known)
  /\ set_class_wizard(state, <<"Arcana", "Athletics">>).status = "failure"
  /\ add_cantrip(state, "fire bolt").status = "failure"
  /\ add_spellbook_spell(state, "Fire Bolt").status = "failure"
  /\ prepare_spell(state, "Fireball").status = "failure"

\* max(1, 6 + floor((total CON - 10) / 2)), total CON being the base
\* constitution plus the background bonus for constitution.
HpFormula(sheet) ==
  LET total_con == sheet.ability_scores.constitution
                   + DictGet(sheet.background_ability_bonuses, "constitution", 0)
  IN Max(1, 6 + ((total_con - 10) \div 2))

\* C4 as stated: in every reachable state in which max_hp is set it equals
\* max(1, 6 + floor((total CON - 10) / 2)).
C4_HpEquationAlways ==
  sheet_now.max_hp # None => sheet_now.max_hp = Some(HpFormula(sheet_now))

\* On the stored state st, a successful set_class_wizard and a
\* compute_derived_stats of a Wizard sheet leave max_hp equal to the formula.
HpEquationWhenRecomputed(st) ==
  /\ \A sk \in SkillArgs :
       LET out == set_class_wizard(st, sk)
       IN out.status = "success"
            => get_sheet(out.state).max_hp = Some(HpFormula(get_sheet(out.state)))
  /\ LET out == compute_derived_stats(st)
     IN get_sheet(st).character_class = Some("Wizard")
          => get_sheet(out.state).max_hp = Some(HpFormula(get_sheet(out.state)))

\* C4, amended: max_hp equals the formula right after a successful
\* set_class_wizard and after compute_derived_stats on a Wizard sheet, whatever
\* scores and background precede them; set_ability_scores and set_background
\* leave max_hp as it was.
C4_HpEquationWhenRecomputed ==
  /\ HpEquationWhenRecomputed(state)
  /\ \A v \in ScoreArgs :
       LET out == set_ability_scores(state, v)
       IN /\ get_sheet(out.state).max_hp = sheet_now.max_hp
          /\ HpEquationWhenRecomputed(out.state)
  /\ \A b \in BackgroundArgs :
       LET out == set_background(state, b.background_name, b.skill_proficiencies,
                                 b.tool_proficiency, b.origin_feat, b.ability_bonuses)
       IN /\ get_sheet(out.state).max_hp = sheet_now.max_hp
          /\ HpEquationWhenRecomputed(out.state)

\* A Wizard sheet whose stored max_hp is not the formula's value (the scores
\* or the background changed after the class was set), which
\* compute_derived_stats brings back to it.
C4_Witness ==
  /\ sheet_now.character_class = Some("Wizard")
  /\ sheet_now.max_hp # None
  /\ sheet_now.max_hp # Some(HpFormula(sheet_now))
  /\ get_sheet(compute_derived_stats(state).state).max_hp = Some(HpFormula(sheet_now))

\* The number of prepared spells of the sheet is within its limit, when the
\* limit is set.
WithinPreparedLimit(sheet) ==
  sheet.max_prepared_spells # None
    => Len(sheet.prepared_spells) <= sheet.max_prepared_spells[1]

\* C5 as stated: in every reachable state in which max_prepared_spells is
\* set, the number of prepared spells is at most max_prepared_spells, also
\* after an ability-score change followed by configure_spellcasting.
C5_PreparedWithinLimitAlways ==
  /\ WithinPreparedLimit(sheet_now)
  /\ \A v \in ScoreArgs :
       WithinPreparedLimit(
         get_sheet(configure_spellcasting(set_ability_scores(state, v).state).state))

\* C5, amended: after every successful prepare_spell the number of prepared
\* spells is at most max_prepared_spells, and no mutator call other than
\* configure_spellcasting takes a sheet that is within its limit to one that
\* is not.
C5_PreparedWithinLimitUnlessReconfigured ==
  LET within_before == WithinPreparedLimit(sheet_now)
  IN ForAllMutatorCalls(state,
       LAMBDA op, arg, out :
         LET within_after == WithinPreparedLimit(get_sheet(out.state))
         IN /\ (op = "prepare_spell" /\ out.status = "success") => within_after
            /\ (op # "configure_spellcasting" /\ within_before) => within_after)

\* A sheet with two prepared spells, within its limit, whose limit
\* configure_spellcasting would lower to one once the scores are set to 10.
C5_Witness ==
  /\ sheet_now.max_prepared_spells # None
  /\ Len(sheet_now.prepared_spells) = 2
  /\ WithinPreparedLimit(sheet_now)
  /\ get_sheet(configure_spellcasting(set_ability_scores(state, AllTen).state).state)
       .max_prepared_spells = Some(1)

NoDuplicates(list) ==
  \A i, j \in DOMAIN list : i # j => list[i] # list[j]

\* The names, as the catalogue spells them, of the wizard spells of a level.
CanonicalWizardNames(level) ==
  {Spells[i].name : i \in {k \in DOMAIN Spells :
                             Spells[k].level = level /\ "wizard" \in Spells[k].classes}}

CantripsWellFormed(sheet) ==
  /\ Len(sheet.cantrips_known) <= 3
  /\ NoDuplicates(sheet.cantrips_known)
  /\ Range(sheet.cantrips_known) \subseteq CanonicalWizardNames(0)

\* C6: in every reachable state, and after add_cantrip with any query,
\* cantrips_known has at most 3 entries, no duplicates, and only canonical
\* names of level-0 wizard spells.
C6_CantripsWellFormed ==
  /\ CantripsWellFormed(sheet_now)
  /\ \A q \in SpellArgs : CantripsWellFormed(get_sheet(add_cantrip(state, q).state))

\* Three cantrips are known, the first one asked for in lower case or as
\* the catalogue spells it; a fourth and a repeated one are refused.
C6_Witness ==
  /\ Len(sheet_now.cantrips_known) = 3
  /\ "Fire Bolt" \in Range(sheet_now.cantrips_known)
  /\ add_cantrip(state, "Prestidigitation").status = "failure"
  /\ add_cantrip(state, "fire bolt").status = "failure"

SpellbookWellFormed(sheet) ==
  /\ Len(sheet.spellbook) <= 6
  /\ NoDuplicates(sheet.spellbook)
  /\ Range(sheet.spellbook) \subseteq CanonicalWizardNames(1)

\* C7: in every reachable state, and after add_spellbook_spell with any
\* query, spellbook has at most 6 entries, no duplicates, and only canonical
\* names of level-1 wizard spells; add_spellbook_spell fails, storing
\* nothing, for a cantrip, a spell of level above 1, a non-wizard spell, any
\* spell when 6 are in the book, and a spell already in the book.
C7_SpellbookWellFormed ==
  /\ SpellbookWellFormed(sheet_now)
  /\ \A q \in SpellArgs :
       SpellbookWellFormed(get_sheet(add_spellbook_spell(state, q).state))
  /\ \A i \in DOMAIN Spells :
       LET spell == Spells[i]
           out == add_spellbook_spell(state, spell.name)
       IN (\/ spell.level = 0
           \/ spell.level > 1
           \/ "wizard" \notin spell.classes
           \/ Len(sheet_now.spellbook) = 6
           \/ spell.name \in Range(sheet_now.spellbook))
            => out.status = "failure" /\ out.state = state
  /\ add_spellbook_spell(state, "firebll").status = "failure"

\* Six spells are in the book, one of them asked for in lower case or as the
\* catalogue spells it; a seventh and a repeated one are refused.
C7_Witness ==
  /\ Len(sheet_now.spellbook) = 6
  /\ "Magic Missile" \in Range(sheet_now.spellbook)
  /\ add_spellbook_spell(state, "Chromatic Orb").status = "failure"
  /\ add_spellbook_spell(state, "magic missile").status = "failure"

PreparedWellFormed(sheet) ==
  /\ Range(sheet.prepared_spells) \subseteq Range(sheet.spellbook)
  /\ NoDuplicates(sheet.prepared_spells)

\* C8: in every reachable state, and after prepare_spell with any name,
\* prepared_spells is a subset of spellbook and has no duplicates.
C8_PreparedWellFormed ==
  /\ PreparedWellFormed(sheet_now)
  /\ \A q \in SpellArgs : PreparedWellFormed(get_sheet(prepare_spell(state, q).state))

\* Two spells are prepared with room for more; preparing one of them again,
\* or a spell that is not in the book, is refused.
C8_Witness ==
  /\ Len(sheet_now.prepared_spells) = 2
  /\ sheet_now.max_prepared_spells # None
  /\ sheet_now.max_prepared_spells[1] > 2
  /\ prepare_spell(state, sheet_now.prepared_spells[1]).status = "failure"
  /\ prepare_spell(state, "Fireball").status = "failure"

\* Values of completed_steps a stored sheet may carry.
CompletedStepsArgs ==
  { <<>>, <<"race_agent">>, <<"race_agent", "ability_score_agent", "class_agent">>,
    <<"validation_agent">> }

\* C9: check_next_step depends on the current field values only: sheets that
\* differ only in completed_steps get the same result, a session without a
\* stored sheet gets the result of a stored default sheet, the call stores
\* nothing, and a second call returns what the first did.
C9_SequencerStateless ==
  /\ \A cs \in CompletedStepsArgs :
       check_next_step(save_sheet([sheet_now EXCEPT !.completed_steps = cs])).result
         = check_next_step(state).result
  /\ check_next_step(save_sheet(sheet_now)).result = check_next_step(state).result
  /\ check_next_step(state).state = state
  /\ check_next_step(check_next_step(state).state).result = check_next_step(state).result

\* A sheet with a race but no name: the name-and-race step is reported,
\* whatever completed_steps says.
C9_Witness ==
  /\ state # None
  /\ sheet_now.race = Some("Gnome")
  /\ sheet_now.name = None
  /\ sheet_now.character_class = Some("Wizard")
  /\ NextAgent(save_sheet([sheet_now EXCEPT !.completed_steps = <<"race_agent">>]))
       = "race_agent"

\* What C10 says of set_class_wizard(skills) called on the stored state st.
SetClassWizardContract(st, skills) ==
  LET out == set_class_wizard(st, skills)
      old == get_sheet(st)
      new == get_sheet(out.state)
      accepted ==
        /\ Len(skills) = 2
        /\ \A i \in DOMAIN skills :
             skills[i] \in {"Arcana", "History", "Insight", "Investigation",
                            "Medicine", "Religion"}
  IN /\ out.status = "success" <=> accepted
     /\ ~accepted => out.status = "failure"
     /\ accepted =>
          /\ new.character_class = Some("Wizard")
          /\ new.level = 1
          /\ new.hit_die = Some("d6")
          /\ Range(new.saving_throw_proficiencies) = {"Intelligence", "Wisdom"}
          /\ BagToSet(new.skill_proficiencies)
               = BagToSet(old.skill_proficiencies) \cup Range(skills)
          /\ new.max_hp = Some(HpFormula(new))
          /\ (/\ old.ability_scores = AbilityScoresOf(StandardArray)
              /\ DictGet(old.background_ability_bonuses, "constitution", 0) = 0)
               => new.max_hp = Some(7)

\* C10: set_class_wizard succeeds exactly for a list of 2 skills that are
\* all wizard skills; on success the class is Wizard, level 1, hit die d6,
\* saving throws Intelligence and Wisdom, the skills are merged into
\* skill_proficiencies and max_hp = max(1, 6 + CON modifier of the total);
\* otherwise it fails.  Checked on every reachable sheet and on every sheet
\* one set_ability_scores call away from it.
C10_SetClassWizardContract ==
  /\ \A sk \in SkillArgs : SetClassWizardContract(state, sk)
  /\ \A v \in ScoreArgs, sk \in SkillArgs :
       SetClassWizardContract(set_ability_scores(state, v).state, sk)

\* A Wizard made from the scores 8,14,13,15,12,10 with Arcana and History:
\* max_hp is 7; a one-skill list would be refused.
C10_Witness ==
  /\ sheet_now.character_class = Some("Wizard")
  /\ sheet_now.ability_scores = AbilityScoresOf(StandardArray)
  /\ sheet_now.background = None
  /\ BagToSet(sheet_now.skill_proficiencies) = {"Arcana", "History"}
  /\ sheet_now.max_hp = Some(7)
  /\ set_class_wizard(state, <<"Arcana">>).status = "failure"

\* floor((base intelligence + background bonus - 10) / 2)
IntMod(sheet) ==
  (sheet.ability_scores.intelligence
   + DictGet(sheet.background_ability_bonuses, "intelligence", 0) - 10) \div 2

\* The three spellcasting numbers of the sheet are those its current total
\* Intelligence gives.
SpellcastingNumbersCurrent(sheet) ==
  /\ sheet.spell_save_dc = Some(8 + sheet.proficiency_bonus + IntMod(sheet))
  /\ sheet.spell_attack_bonus = Some(sheet.proficiency_bonus + IntMod(sheet))
  /\ sheet.max_prepared_spells = Some(Max(1, IntMod(sheet) + sheet.level))

\* What C11 says of configure_spellcasting called on the stored state st.
ConfigureSpellcastingContract(st) ==
  LET out == configure_spellcasting(st)
      old == get_sheet(st)
      new == get_sheet(out.state)
  IN IF old.character_class # Some("Wizard")
     THEN out.status = "failure"
     ELSE /\ out.status = "success"
          /\ new.spellcasting_ability = Some("Intelligence")
          /\ new.spell_slots = <<2>>
          /\ SpellcastingNumbersCurrent(new)
          /\ (/\ old.ability_scores.intelligence = 15
              /\ DictGet(old.background_ability_bonuses, "intelligence", 0) = 0)
               => /\ new.spell_save_dc = Some(12)
                  /\ new.spell_attack_bonus = Some(4)
                  /\ new.max_prepared_spells = Some(3)

\* C11: configure_spellcasting fails when the class is not Wizard; otherwise
\* it succeeds and stores Intelligence, the slots {1: 2}, DC = 8 +
\* proficiency + INT modifier, attack = proficiency + INT modifier and
\* max prepared = max(1, INT modifier + level), from the total Intelligence;
\* Intelligence 15 gives 12, 4 and 3.  Checked on every reachable sheet and on
\* every sheet one set_ability_scores or set_background call away.
C11_ConfigureSpellcastingContract ==
  /\ ConfigureSpellcastingContract(state)
  /\ \A v \in ScoreArgs :
       ConfigureSpellcastingContract(set_ability_scores(state, v).state)
  /\ \A b \in BackgroundArgs :
       ConfigureSpellcastingContract(
         set_background(state, b.background_name, b.skill_proficiencies,
                        b.tool_proficiency, b.origin_feat, b.ability_bonuses).state)

\* A Wizard with Intelligence 15 and no background whose spellcasting is
\* configured: DC 12, attack 4, three spells to prepare.
C11_Witness ==
  /\ sheet_now.character_class = Some("Wizard")
  /\ sheet_now.ability_scores.intelligence = 15
  /\ sheet_now.background = None
  /\ sheet_now.spellcasting_ability = Some("Intelligence")
  /\ sheet_now.spell_save_dc = Some(12)
  /\ sheet_now.spell_attack_bonus = Some(4)
  /\ sheet_now.max_prepared_spells = Some(3)

\* C12 as stated: in every reachable state in which spellcasting is
\* configured, the stored DC, attack bonus and max prepared are those of the
\* current total Intelligence.
C12_SpellcastingNumbersAlwaysCurrent ==
  sheet_now.spellcasting_ability # None => SpellcastingNumbersCurrent(sheet_now)

\* The stored DC, attack bonus and max prepared of two sheets are the same.
SameSpellcastingNumbers(a, b) ==
  /\ a.spell_save_dc = b.spell_save_dc
  /\ a.spell_attack_bonus = b.spell_attack_bonus
  /\ a.max_prepared_spells = b.max_prepared_spells

\* C12, amended: the stored spellcasting numbers are those of the current
\* total Intelligence right after a successful configure_spellcasting;
\* set_ability_scores and set_background leave the stored numbers as they
\* were, whatever they do to the Intelligence total.
C12_SpellcastingNumbersCurrentWhenConfigured ==
  /\ LET out == configure_spellcasting(state)
     IN out.status = "success" => SpellcastingNumbersCurrent(get_sheet(out.state))
  /\ \A v \in ScoreArgs :
       SameSpellcastingNumbers(get_sheet(set_ability_scores(state, v).state), sheet_now)
  /\ \A b \in BackgroundArgs :
       SameSpellcastingNumbers(
         get_sheet(set_background(state, b.background_name, b.skill_proficiencies,
                                  b.tool_proficiency, b.origin_feat,
                                  b.ability_bonuses).state),
         sheet_now)

\* A configured sheet whose stored numbers are no longer those of its total
\* Intelligence, and which configure_spellcasting brings up to date.
C12_Witness ==
  /\ sheet_now.spellcasting_ability = Some("Intelligence")
  /\ ~SpellcastingNumbersCurrent(sheet_now)
  /\ SpellcastingNumbersCurrent(get_sheet(configure_spellcasting(state).state))

\* The catalogue name a query of SpellArgs stands for: the tests' lower-case,
\* misspelt and shortened queries, the query that matches nothing, and
\* otherwise a catalogue name, which stands for itself.
ResolvesTo(query) ==
  CASE query = "fire bolt" -> Some("Fire Bolt")
    [] query = "magic missile" -> Some("Magic Missile")
    [] query = "shield" -> Some("Shield")
    [] query = "firebll" -> Some("Fireball")
    [] query = "Mage" -> Some("Mage Hand")
    [] query = "NonexistentSpell123" -> None
    [] OTHER -> Some(query)

CatalogueEntry(name) == CHOOSE sp \in Range(Spells) : sp.name = name

\* What C13 says of add_cantrip(query) called on the stored state st.
AddCantripContract(st, query) ==
  LET out == add_cantrip(st, query)
      old == get_sheet(st).cantrips_known
      new == get_sheet(out.state).cantrips_known
      name == ResolvesTo(query)
      accepted ==
        /\ name # None
        /\ CatalogueEntry(name[1]).level = 0
        /\ "wizard" \in CatalogueEntry(name[1]).classes
        /\ Len(old) < 3
        /\ name[1] \notin Range(old)
  IN /\ out.status = "success" <=> accepted
     /\ accepted => new = Append(old, name[1])
     /\ ~accepted => out.status = "failure" /\ Len(new) = Len(old)

\* C13: add_cantrip succeeds, appending the canonical name, exactly when the
\* query resolves, the spell has level 0 and wizard among its classes, fewer
\* than 3 cantrips are known and the spell is not known yet; every other call
\* fails and leaves the number of stored cantrips as it was.
C13_AddCantripContract ==
  \A q \in SpellArgs : AddCantripContract(state, q)

\* Two cantrips are known: a third one is accepted, while a level-1 spell, a
\* cleric cantrip and a known cantrip are refused.
C13_Witness ==
  /\ sheet_now.cantrips_known = <<"Fire Bolt", "Light">>
  /\ add_cantrip(state, "Mage Hand").status = "success"
  /\ add_cantrip(state, "Magic Missile").status = "failure"
  /\ add_cantrip(state, "Sacred Flame").status = "failure"
  /\ add_cantrip(state, "Light").status = "failure"

\* What C14 says of prepare_spell(name) called on the stored state st.
PrepareSpellContract(st, name) ==
  LET out == prepare_spell(st, name)
      old == get_sheet(st)
      new == get_sheet(out.state)
      accepted ==
        /\ name \in Range(old.spellbook)
        /\ old.max_prepared_spells # None
        /\ Len(old.prepared_spells) < old.max_prepared_spells[1]
        /\ name \notin Range(old.prepared_spells)
  IN /\ out.status = "success" <=> accepted
     /\ accepted => new.prepared_spells = Append(old.prepared_spells, name)
     /\ ~accepted => out.status = "failure" /\ out.state = st
     /\ name \notin Range(old.spellbook) => out.status = "failure"
     /\ old.max_prepared_spells = None => out.status = "failure"

\* C14: prepare_spell(name) succeeds, appending name, exactly when name is in
\* the spellbook, max_prepared_spells is set, fewer than that many spells are
\* prepared and name is not prepared yet; it fails for every name that is
\* not in the spellbook and for every call before spellcasting is configured.
C14_PrepareSpellContract ==
  \A q \in SpellArgs : PrepareSpellContract(state, q)

\* One spell is prepared and there is room for another: a second spell of
\* the book is accepted, while the prepared one, the same name in lower case
\* and a spell that is not in the book are refused.
C14_Witness ==
  /\ sheet_now.prepared_spells = <<"Magic Missile">>
  /\ prepare_spell(state, "Shield").status = "success"
  /\ prepare_spell(state, "Magic Missile").status = "failure"
  /\ prepare_spell(state, "magic missile").status = "failure"
  /\ prepare_spell(state, "Fireball").status = "failure"

\* Scores at and next to the limits of the valid range 1..30.
EdgeScores == <<1, 30, 0, 29, 30, 1>>

\* The stored states the validator is examined on from the stored state st:
\* st itself and the states one set_ability_scores, set_background or
\* set_race call away, with in-range, out-of-range and limit scores, with and
\* without bonuses, and with empty names.
ValidatedStates(st) ==
  {st}
  \cup {set_ability_scores(st, v).state : v \in ScoreArgs \cup {EdgeScores}}
  \cup {set_background(set_ability_scores(st, EdgeScores).state,
                       b.background_name, b.skill_proficiencies, b.tool_proficiency,
                       b.origin_feat, b.ability_bonuses).state : b \in BackgroundArgs}
  \cup {set_race(st, r.race_name, r.size, r.speed, r.darkvision,
                 r.racial_traits).state : r \in RaceArgs}

\* base score + background bonus of an ability
TotalScore(sheet, a) ==
  sheet.ability_scores[a] + DictGet(sheet.background_ability_bonuses, a, 0)

Flag(cond, path) == IF cond THEN {path} ELSE {}

\* The checks the sheet violates, by the path of the field.
ViolatedChecks(sheet) ==
  Flag(Unset(sheet.race), <<"race">>)
  \cup Flag(Unset(sheet.character_class), <<"character_class">>)
  \cup Flag(Unset(sheet.background), <<"background">>)
  \cup {<<"ability_scores", a>> :
          a \in {b \in Abilities : TotalScore(sheet, b) \notin 1..30}}
  \cup Flag(Len(sheet.cantrips_known) # 3, <<"cantrips_known">>)
  \cup Flag(Len(sheet.spellbook) # 6, <<"spellbook">>)
  \cup Flag(/\ sheet.max_prepared_spells # None
            /\ Len(sheet.prepared_spells) > sheet.max_prepared_spells[1],
            <<"prepared_spells">>)
  \cup Flag(sheet.armor_class = None, <<"armor_class">>)
  \cup Flag(sheet.max_hp = None, <<"max_hp">>)

\* The validator reports each violated check of the stored state st once,
\* and nothing else, and writes nothing.
ReportsEveryViolation(st) ==
  LET out == validate_character_sheet(st)
      violated == ViolatedChecks(get_sheet(st))
  IN /\ out.state = st
     /\ violated # {} =>
          /\ out.status = "failure"
          /\ out.result[1].valid = FALSE
          /\ Range(out.result[1].errors) = violated
          /\ Len(out.result[1].errors) = Cardinality(violated)

\* C15: validate_character_sheet reports exactly one error for each violated
\* check, all in one call: race, class, background, each total ability score
\* outside 1..30, cantrip count, spellbook count, too many prepared spells,
\* armor class, max hp.  On a session without a sheet the errors include
\* race, class, background and the cantrip count.
C15_ValidatorCollectsAll ==
  /\ \A st \in ValidatedStates(state) : ReportsEveryViolation(st)
  /\ state = None =>
       LET out == validate_character_sheet(state)
       IN /\ out.status = "failure"
          /\ out.result[1].valid = FALSE
          /\ {<<"race">>, <<"character_class">>, <<"background">>, <<"cantrips_known">>}
               \subseteq Range(out.result[1].errors)

\* A Wizard sheet with a race that violates several checks at once: the
\* validator reports at least the background, the spellbook count and the
\* armor class, and one more error for Intelligence once the limit scores
\* and a +2 bonus are set.
C15_Witness ==
  /\ sheet_now.race = Some("Gnome")
  /\ sheet_now.character_class = Some("Wizard")
  /\ sheet_now.background = None
  /\ Len(sheet_now.cantrips_known) = 3
  /\ Len(validate_character_sheet(state).result[1].errors) = 3
  /\ LET st == set_background(set_ability_scores(state, EdgeScores).state,
                              Sage.background_name, Sage.skill_proficiencies,
                              Sage.tool_proficiency, Sage.origin_feat,
                              Sage.ability_bonuses).state
     IN <<"ability_scores", "intelligence">>
          \in Range(validate_character_sheet(st).result[1].errors)

\* What C16 asks of a sheet for it to validate.
SheetComplete(sheet) ==
  /\ ~Unset(sheet.race)
  /\ ~Unset(sheet.character_class)
  /\ ~Unset(sheet.background)
  /\ \A a \in Abilities : TotalScore(sheet, a) >= 1 /\ TotalScore(sheet, a) <= 30
  /\ Len(sheet.cantrips_known) = 3
  /\ Len(sheet.spellbook) = 6
  /\ sheet.max_prepared_spells # None
       => Len(sheet.prepared_spells) <= sheet.max_prepared_spells[1]
  /\ sheet.armor_class # None
  /\ sheet.max_hp # None

ValidatesExactlyWhenComplete(st) ==
  LET out == validate_character_sheet(st)
  IN /\ out.status = "success" <=> SheetComplete(get_sheet(st))
     /\ out.result[1].valid <=> SheetComplete(get_sheet(st))

\* C16: validate_character_sheet returns success with valid true exactly
\* when race, class and background are set, every total ability score is in
\* 1..30, there are 3 cantrips and 6 spellbook spells, the prepared spells do
\* not exceed the limit, and armor class and max hp are set.
C16_ValidatesExactlyWhenComplete ==
  \A st \in ValidatedStates(state) : ValidatesExactlyWhenComplete(st)

\* A sheet built by name, race, in-range scores, class, background,
\* spellcasting, 3 cantrips, 6 spells and derived stats, with no spell
\* prepared: it validates, and stops validating once a score leaves 1..30.
C16_Witness ==
  /\ sheet_now.name = Some("Fizban")
  /\ sheet_now.race = Some("Gnome")
  /\ sheet_now.ability_scores = AbilityScoresOf(StandardArray)
  /\ sheet_now.character_class = Some("Wizard")
  /\ sheet_now.background = Some("Sage")
  /\ sheet_now.spellcasting_ability = Some("Intelligence")
  /\ Len(sheet_now.cantrips_known) = 3
  /\ Len(sheet_now.spellbook) = 6
  /\ sheet_now.prepared_spells = <<>>
  /\ sheet_now.armor_class # None
  /\ validate_character_sheet(state).status = "success"
  /\ validate_character_sheet(state).result[1].valid
  /\ validate_character_sheet(set_ability_scores(state, LowScores).state).status
       = "failure"

---------------------------------------------------------------------------
(* C17: the envelope of every operation *)

\* The envelope as the interface states it.
Envelope(out) ==
  /\ out.status \in {"success", "failure"}
  /\ out.status = "failure" => out.message # None /\ out.result = None
  /\ out.status = "success" => out.result # None

\* The spell look-ups of the wizard agent and of the spell agent, over every
\* argument of the ...Args sets.
SpellLookupsEnveloped ==
  /\ \A q \in SpellArgs : Envelope(find_spell_by_name(q))
  /\ \A c \in ClassArgs, s \in SchoolArgs, m \in MaxLevelArgs, r \in RitualArgs :
       Envelope(list_spells(c, s, m, r))
  /\ Envelope(list_schools)
  /\ Envelope(list_classes)
  /\ Envelope(list_wizard_cantrips)
  /\ Envelope(list_wizard_level1_spells)
  /\ \A q \in SpellArgs \cup CompareQueries : Envelope(spell_agent_find_spell_by_name(q))
  /\ \A c \in SpellAgentListSpellsCalls :
       Envelope(spell_agent_list_spells(c[1], c[2], c[3], c[4], c[5], c[6]))
  /\ Envelope(spell_agent_list_schools)
  /\ Envelope(spell_agent_list_classes)
  /\ \A a \in CompareQueries, b \in CompareQueries : Envelope(compare_spells(a, b))

\* The race and background look-ups, over every argument of the sets the
\* look-up actions draw from.
CatalogueLookupsEnveloped ==
  /\ \A q \in RaceQueries : Envelope(find_race_by_name(q))
  /\ \A sz \in SizeArgs, dv \in DarkvisionArgs, ab \in AbilityArgs :
       Envelope(list_races(sz, dv, ab))
  /\ \A ab \in AbilityArgs \ {None} : Envelope(list_races_by_ability(ab[1]))
  /\ \A q \in BackgroundQueries : Envelope(find_background_by_name(q))
  /\ \A ab \in BackgroundAbilityArgs, sk \in BackgroundSkillArgs :
       Envelope(list_backgrounds(ab, sk))
  /\ \A q \in FeatQueries : Envelope(list_backgrounds_by_feat(q))
  /\ Envelope(list_all_skills)
  /\ Envelope(list_all_feats)
  /\ \A q \in RaceQueries : Envelope(get_ability_bonuses(q))
  /\ Envelope(list_sizes)

\* roll_dice, over every notation and every sequence of draws.
DiceEnveloped ==
  \A n \in DiceNotations : \A randint \in RandintDraws(n) : Envelope(roll_dice(n, randint))

\* Every look-up tool and the dice roller.
LookupsEnveloped ==
  SpellLookupsEnveloped /\ CatalogueLookupsEnveloped /\ DiceEnveloped

\* roll_d6 and roll_d20 of the dice agent answer with the number drawn and
\* with no envelope.
DiceAgentRollsBare ==
  /\ \A randint \in 1..6 : roll_d6(randint) \in 1..6
  /\ \A randint \in 1..20 : roll_d20(randint) \in 1..20

\* Every operation other than the validator, in the stored state st.
OthersEnveloped(st) ==
  /\ ForAllMutatorCalls(st, LAMBDA op, arg, out : Envelope(out))
  /\ Envelope(check_next_step(st))
  /\ Envelope(get_character_sheet(st))
  /\ LookupsEnveloped

\* C17 as stated: every operation, the validator included, answers a failure
\* with a message and no result, and a success with a result.
C17_UniformEnvelope ==
  OthersEnveloped(state) /\ Envelope(validate_character_sheet(state))

\* C17: every mutator, the sequencer, the sheet reader, every look-up tool
\* of the wizard agent and of the spell agent (spells, races, backgrounds,
\* skills, feats, sizes, ability bonuses, compare_spells) and roll_dice
\* answer with status success or failure, a failure with a message and no
\* result, a success with a result (a total below 1 included); the
\* validator answers a success with a result, and a failure with a message
\* and with the result {valid: false, errors}; roll_d6 and roll_d20 of the
\* dice agent answer with the bare number drawn.
C17_EnvelopeValidatorFailureHasResult ==
  LET out == validate_character_sheet(state)
  IN /\ OthersEnveloped(state)
     /\ DiceAgentRollsBare
     /\ out.status \in {"success", "failure"}
     /\ out.status = "success" => out.result # None
     /\ out.status = "failure" =>
          /\ out.message # None
          /\ out.result # None
          /\ out.result[1].valid = FALSE
          /\ out.result[1].errors # <<>>

\* A stored sheet on which the validator fails with a message and a result
\* and configure_spellcasting fails with a message only; look-ups of a
\* spell, a race and a background find nothing, a comparison fails on its
\* second name, filters are refused, no background grants the feat asked
\* for, a notation is refused, a roll totals -6 and roll_d20 answers 20.
C17_Witness ==
  /\ state # None
  /\ validate_character_sheet(state).status = "failure"
  /\ validate_character_sheet(state).message # None
  /\ validate_character_sheet(state).result # None
  /\ configure_spellcasting(state).status = "failure"
  /\ configure_spellcasting(state).result = None
  /\ find_spell_by_name("NonexistentSpell123").status = "failure"
  /\ list_spells(None, Some("invalid"), None, None).status = "failure"
  /\ list_wizard_cantrips.status = "success"
  /\ find_race_by_name("NonexistentRace123").status = "failure"
  /\ find_race_by_name("NonexistentRace123").result = None
  /\ find_background_by_name("NonexistentBackground123").message # None
  /\ compare_spells("Fireball", "Zzyzx").status = "failure"
  /\ compare_spells("Fireball", "Lightning Bolt").result # None
  /\ list_races(Some("huge"), None, None).status = "failure"
  /\ list_races_by_ability("luck").status = "failure"
  /\ list_backgrounds(Some("luck"), None).result = Some(<<>>)
  /\ list_backgrounds_by_feat("Lucky").status = "failure"
  /\ list_backgrounds_by_feat("Lucky").result = None
  /\ list_backgrounds_by_feat("MAGIC INITIATE").result = Some(<<"Acolyte", "Sage">>)
  /\ get_ability_bonuses("NonexistentRace123").status = "failure"
  /\ get_ability_bonuses("Gnome").result = Some({"intelligence"})
  /\ list_all_feats.result
       = Some(<<"Alert", "Magic Initiate (Cleric)", "Magic Initiate (Wizard)", "Skilled">>)
  /\ list_sizes.result = Some(<<"small", "medium">>)
  /\ roll_d20(20) = 20
  /\ spell_agent_find_spell_by_name("NonexistentSpell123").status = "failure"
  /\ roll_dice(Codes(<<"2", "x", "6">>), <<>>).status = "failure"
  /\ roll_dice(Codes(<<"1", "d", "4", "-", "1", "0">>), <<4>>).result = Some(-6)
  /\ roll_dice(Codes(<<"3", "d", "4", "-", "2">>), <<1, 1, 1>>).result = Some(1)

---------------------------------------------------------------------------
(* C18: the derived statistics *)

\* floor((total score - 10) / 2) of the sheet's current total score.
TotalMod(sheet, a) == (TotalScore(sheet, a) - 10) \div 2

PerceptionProficient(sheet) == BagIn("Perception", sheet.skill_proficiencies)

Scribe == CHOOSE b \in BackgroundArgs : b.background_name = "Scribe"

\* compute_derived_stats on the stored state st succeeds, stores the four
\* statistics the formulas give for the sheet it found, and reports them.
DerivedStatsContract(st) ==
  LET before == get_sheet(st)
      out == compute_derived_stats(st)
      after == get_sheet(out.state)
      passive == 10 + TotalMod(before, "wisdom")
                 + (IF PerceptionProficient(before) THEN before.proficiency_bonus
                    ELSE 0)
      hp == IF before.character_class = Some("Wizard")
            THEN Some(Max(1, 6 + TotalMod(before, "constitution")))
            ELSE before.max_hp
  IN /\ out.status = "success"
     /\ after.armor_class = Some(10 + TotalMod(before, "dexterity"))
     /\ after.initiative = Some(TotalMod(before, "dexterity"))
     /\ after.passive_perception = Some(passive)
     /\ after.max_hp = hp
     /\ out.result =
          Some([armor_class |-> after.armor_class, initiative |-> after.initiative,
                passive_perception |-> after.passive_perception,
                max_hp |-> after.max_hp])

\* C18: compute_derived_stats succeeds from every reachable sheet, and from
\* the sheet any set_ability_scores or set_background call leaves, and then
\* armor_class = 10 + DEX modifier, initiative = DEX modifier,
\* passive_perception = 10 + WIS modifier (+ proficiency_bonus with Perception
\* among the skills), max_hp = max(1, 6 + CON modifier) for a Wizard and is
\* unchanged otherwise, the modifiers being those of the current totals.
C18_DerivedStatsFormulas ==
  /\ DerivedStatsContract(state)
  /\ \A v \in ScoreArgs : DerivedStatsContract(set_ability_scores(state, v).state)
  /\ \A b \in BackgroundArgs :
       DerivedStatsContract(
         set_background(state, b.background_name, b.skill_proficiencies,
                        b.tool_proficiency, b.origin_feat, b.ability_bonuses).state)

\* A Wizard whose statistics have been computed with a background bonus in the
\* totals, and for whom the Scribe background would add the proficiency bonus
\* to the passive perception.
C18_Witness ==
  LET sheet == sheet_now
      scribe == set_background(state, Scribe.background_name,
                               Scribe.skill_proficiencies, Scribe.tool_proficiency,
                               Scribe.origin_feat, Scribe.ability_bonuses).state
  IN /\ sheet.character_class = Some("Wizard")
     /\ sheet.armor_class # None
     /\ sheet.passive_perception # None
     /\ TotalScore(sheet, "constitution") # sheet.ability_scores.constitution
     /\ sheet.max_hp = Some(Max(1, 6 + TotalMod(sheet, "constitution")))
     /\ PerceptionProficient(get_sheet(scribe))
     /\ get_sheet(compute_derived_stats(scribe).state).passive_perception
          = Some(10 + TotalMod(get_sheet(scribe), "wisdom") + 2)

---------------------------------------------------------------------------
(* C19: idempotence of the two recomputing tools *)

\* The second of two successive calls succeeds, stores what the first stored
\* and reports what the first reported.
SameAsFirstCall(first, second) ==
  /\ first.status = "success"
  /\ second.status = "success"
  /\ second.state = first.state
  /\ second.result = first.result

\* After a first call of both tools on st and the change of inputs that
\* leaves `changed` as the argument of the second call, the second call
\* stores the values of the changed totals.
RecomputedFrom(changed) ==
  /\ DerivedStatsContract(changed)
  /\ get_sheet(changed).character_class = Some("Wizard") =>
       LET out == configure_spellcasting(changed)
       IN /\ out.status = "success"
          /\ SpellcastingNumbersCurrent(get_sheet(out.state))

\* The stored state after compute_derived_stats and, for a Wizard,
\* configure_spellcasting have both been called on st.
BothCalled(st) ==
  LET computed == compute_derived_stats(st).state
  IN IF get_sheet(st).character_class = Some("Wizard")
     THEN configure_spellcasting(computed).state
     ELSE computed

\* C19: in every reachable state a second compute_derived_stats right after a
\* first, and for a Wizard a second configure_spellcasting right after a
\* first, leaves the stored sheet as the first left it and returns the same
\* result; and called again after set_ability_scores or set_background has
\* changed the inputs, each stores the values of the current totals.
C19_RecomputingToolsIdempotent ==
  LET stats == compute_derived_stats(state)
      casting == configure_spellcasting(state)
      called == BothCalled(state)
  IN /\ SameAsFirstCall(stats, compute_derived_stats(stats.state))
     /\ sheet_now.character_class = Some("Wizard") =>
          SameAsFirstCall(casting, configure_spellcasting(casting.state))
     /\ \A v \in ScoreArgs : RecomputedFrom(set_ability_scores(called, v).state)
     /\ \A b \in BackgroundArgs :
          RecomputedFrom(
            set_background(called, b.background_name, b.skill_proficiencies,
                           b.tool_proficiency, b.origin_feat,
                           b.ability_bonuses).state)

\* A Wizard with both tools already called and a non-zero Constitution
\* modifier, for whom other ability scores give other values on a further call.
C19_Witness ==
  LET sheet == sheet_now
      changed == set_ability_scores(state, AllTen).state
  IN /\ sheet.character_class = Some("Wizard")
     /\ sheet.armor_class # None
     /\ sheet.spell_save_dc # None
     /\ TotalMod(sheet, "constitution") # 0
     /\ compute_derived_stats(state).state = state
     /\ configure_spellcasting(state).state = state
     /\ compute_derived_stats(changed).result # compute_derived_stats(state).result
     /\ configure_spellcasting(changed).result # configure_spellcasting(state).result

---------------------------------------------------------------------------
(* C20: re-invoking the mutator of a phase *)

SetBackgroundWith(st, b) ==
  set_background(st, b.background_name, b.skill_proficiencies, b.tool_proficiency,
                 b.origin_feat, b.ability_bonuses)

\* C20 as stated: set_background called with one background and then with
\* another leaves the stored sheet that the second call alone leaves, and so
\* does set_class_wizard called with two accepted skill pairs.
C20_ReinvocationOverwritesPhase ==
  /\ \A b1 \in BackgroundArgs, b2 \in BackgroundArgs :
       SetBackgroundWith(SetBackgroundWith(state, b1).state, b2).state
         = SetBackgroundWith(state, b2).state
  /\ \A sk1 \in SkillArgs, sk2 \in SkillArgs :
       LET first == set_class_wizard(state, sk1)
           second == set_class_wizard(first.state, sk2)
       IN first.status = "success" /\ second.status = "success" =>
            second.state = set_class_wizard(state, sk2).state

\* A sheet whose only skills are those the Sage background gave: after
\* set_background with Scribe the skills of Sage are still there, and after
\* set_class_wizard with two pairs in turn the sheet has four class skills.
C20_Witness ==
  LET sheet == sheet_now
      again == get_sheet(SetBackgroundWith(state, Scribe).state)
      pairs == get_sheet(set_class_wizard(
                           set_class_wizard(state, <<"Arcana", "History">>).state,
                           <<"Insight", "Religion">>).state)
  IN /\ sheet.background = Some("Sage")
     /\ sheet.character_class = None
     /\ again.background = Some("Scribe")
     /\ BagIn("Arcana", again.skill_proficiencies)
     /\ BagIn("History", again.skill_proficiencies)
     /\ BagIn("Arcana", pairs.skill_proficiencies)
     /\ BagIn("Insight", pairs.skill_proficiencies)

---------------------------------------------------------------------------
(* C21: the ability modifier *)

\* The total scores the modifier is examined on: MaxTotal at most, and down
\* to BelowZero under zero.
BelowZero == 6
MaxTotal == 32
MinTotal == 0 - BelowZero
BonusValues == {0, 1, 2}

\* m is floor((t - 10) / 2): the greatest integer with 2 * m <= t - 10.
IsFloorHalf(m, t) == 2 * m <= t - 10 /\ t - 10 < 2 * m + 2

\* A default sheet with base score t and background bonus b for ability a.
SheetWithScore(a, t, b) ==
  [DefaultSheet EXCEPT !.ability_scores[a] = t,
                       !.background_ability_bonuses = [k \in {a} |-> b]]

\* The modifier of every ability at every total of the range, and at the
\* four scores the text names.
ModifierOfEveryTotal ==
  /\ \A a \in Abilities, t \in MinTotal..MaxTotal, b \in BonusValues :
       LET sheet == SheetWithScore(a, t, b)
       IN /\ IsFloorHalf(get_total_modifier(sheet, a), t + b)
          /\ IsFloorHalf(get_modifier(sheet.ability_scores, a), t)
  /\ \A a \in Abilities :
       /\ get_total_modifier(SheetWithScore(a, 7, 0), a) = -2
       /\ get_total_modifier(SheetWithScore(a, 5, 2), a) = -2
       /\ get_total_modifier(SheetWithScore(a, 9, 0), a) = -1
       /\ get_total_modifier(SheetWithScore(a, 10, 0), a) = 0
       /\ get_total_modifier(SheetWithScore(a, 11, 0), a) = 0

\* The statistics the tools derive for the stored state st are those of the
\* floor modifier of the totals.
DerivedFromFloorModifier(st) ==
  LET sheet == get_sheet(st)
      stats == get_sheet(compute_derived_stats(st).state)
      casting == get_sheet(configure_spellcasting(st).state)
      passive == IF PerceptionProficient(sheet)
                 THEN stats.passive_perception[1] - sheet.proficiency_bonus
                 ELSE stats.passive_perception[1]
  IN /\ IsFloorHalf(stats.armor_class[1] - 10, TotalScore(sheet, "dexterity"))
     /\ IsFloorHalf(stats.initiative[1], TotalScore(sheet, "dexterity"))
     /\ IsFloorHalf(passive - 10, TotalScore(sheet, "wisdom"))
     /\ sheet.character_class = Some("Wizard") =>
          /\ \/ stats.max_hp = Some(1) /\ TotalScore(sheet, "constitution") < 2
             \/ /\ stats.max_hp[1] >= 1
                /\ IsFloorHalf(stats.max_hp[1] - 6, TotalScore(sheet, "constitution"))
          /\ IsFloorHalf(casting.spell_attack_bonus[1] - sheet.proficiency_bonus,
                         TotalScore(sheet, "intelligence"))
          /\ IsFloorHalf(casting.spell_save_dc[1] - 8 - sheet.proficiency_bonus,
                         TotalScore(sheet, "intelligence"))

\* C21: for every ability and every total score the modifier is
\* floor((total - 10) / 2), rounding toward negative infinity (7 gives -2, 9
\* gives -1, 10 and 11 give 0), and the derived statistics of every reachable
\* sheet, and of the sheet any set_ability_scores call leaves, use it.
C21_ModifierIsFloor ==
  /\ ModifierOfEveryTotal
  /\ \A a \in Abilities :
       IsFloorHalf(get_total_modifier(sheet_now, a), TotalScore(sheet_now, a))
  /\ DerivedFromFloorModifier(state)
  /\ \A v \in ScoreArgs : DerivedFromFloorModifier(set_ability_scores(state, v).state)

\* A Wizard with a background bonus and computed statistics; with the scores
\* 7, 9, -3, 7, 31, 0 set, the Dexterity of 9 gives an armor class of 9 and
\* the Intelligence of 7 with the bonus of 2 gives an attack bonus of 1.
C21_Witness ==
  LET low == set_ability_scores(state, LowScores).state
  IN /\ sheet_now.character_class = Some("Wizard")
     /\ sheet_now.armor_class # None
     /\ DictGet(sheet_now.background_ability_bonuses, "intelligence", 0) = 2
     /\ get_total_modifier(get_sheet(low), "strength") = -2
     /\ get_total_modifier(get_sheet(low), "Strength") = -2
     /\ get_sheet(compute_derived_stats(low).state).armor_class = Some(9)
     /\ get_sheet(configure_spellcasting(low).state).spell_attack_bonus = Some(1)

---------------------------------------------------------------------------
(* C22: the round trip through the session storage *)

OptionalFields ==
  {"name", "race", "size", "darkvision", "character_class", "hit_die", "max_hp",
   "background", "background_feature", "origin_feat", "spellcasting_ability",
   "spell_save_dc", "spell_attack_bonus", "max_prepared_spells", "armor_class",
   "initiative", "passive_perception"}

ListFields ==
  {"completed_steps", "racial_traits", "saving_throw_proficiencies",
   "weapon_proficiencies", "armor_proficiencies", "tool_proficiencies",
   "languages", "cantrips_known", "spellbook", "prepared_spells"}

\* Saving the sheet and loading it again gives the sheet back, field by
\* field, and a second save stores the document of the first.
RoundTrips(sheet) ==
  LET saved == save_sheet(sheet)
      loaded == get_sheet(saved)
  IN /\ loaded = sheet
     /\ \A f \in OptionalFields : sheet[f] = None => loaded[f] = None
     /\ \A f \in ListFields : loaded[f] = sheet[f]
     /\ save_sheet(loaded) = saved

\* The stored document holds a key for every declared field and for the
\* computed field, None exactly under the keys of the unset optional fields,
\* and every list in the order of the sheet.
DocumentOf(doc, sheet) ==
  /\ DOMAIN doc = FieldNames \cup ComputedFields
  /\ \A f \in OptionalFields : doc[f] = None <=> sheet[f] = None
  /\ \A f \in ListFields : doc[f] = sheet[f]
  /\ doc["total_ability_scores"] = total_ability_scores(sheet)

\* C22: the sheet of every reachable state, and the sheet any
\* set_ability_scores or set_background call leaves, is reproduced by a save
\* followed by a load (unset fields unset, lists in their order), the stored
\* document holds every field under its key and is the one a save of its
\* loaded sheet stores, and a second save after the load stores the same
\* document.
C22_StorageRoundTrip ==
  /\ RoundTrips(sheet_now)
  /\ state # None => DocumentOf(state[1], sheet_now)
  /\ state # None => save_sheet(get_sheet(state)) = state
  /\ \A v \in ScoreArgs : RoundTrips(get_sheet(set_ability_scores(state, v).state))
  /\ \A b \in BackgroundArgs : RoundTrips(get_sheet(SetBackgroundWith(state, b).state))

\* A stored sheet with unset optional fields, a background bonus in the
\* dumped totals and a spellbook of several names in insertion order.
C22_Witness ==
  /\ state # None
  /\ sheet_now.darkvision = None
  /\ sheet_now.armor_class = None
  /\ TotalScore(sheet_now, "intelligence") # sheet_now.ability_scores.intelligence
  /\ state[1].total_ability_scores.intelligence
       = TotalScore(sheet_now, "intelligence")
  /\ Len(sheet_now.spellbook) >= 3
  /\ Len(sheet_now.cantrips_known) >= 2
  /\ get_sheet(save_sheet(sheet_now)) = sheet_now

---------------------------------------------------------------------------
(* C24: the values of next_agent *)

\* The ten step identifiers and the terminal value of the docstring.
NextAgentValues == Range(StepOrder) \cup {"complete"}

\* Every step is done: the nine conditions are met and the validation of the
\* final step succeeds.
EveryStepDone(st) ==
  /\ FirstUnmet(get_sheet(st)) = 10
  /\ validate_character_sheet(st).status = "success"

\* C24 as stated: check_next_step succeeds with a next_agent among the ten
\* step identifiers and "complete", and reports "complete" once every step is
\* done.
C24_ReportsCompleteWhenDone ==
  LET out == check_next_step(state)
  IN /\ out.status = "success"
     /\ out.result[1].next_agent \in NextAgentValues
     /\ EveryStepDone(state) => out.result[1].next_agent = "complete"

\* Every step is done, the validation succeeds, and check_next_step still
\* names validation_agent, before and after the validation is called.
C24_Witness ==
  /\ EveryStepDone(state)
  /\ check_next_step(state).result[1].next_agent = "validation_agent"
  /\ check_next_step(validate_character_sheet(state).state).result[1].next_agent
       = "validation_agent"

---------------------------------------------------------------------------
(* C25: six scores of exactly 10 *)

\* C25: in every reachable state with a name and a race,
\* set_ability_scores(10, 10, 10, 10, 10, 10) succeeds, stores the ability
\* scores of a sheet whose scores were never set, and check_next_step then
\* reports ability_score_agent, whatever else the sheet holds.
C25_AllTenReadsAsUnset ==
  LET out == set_ability_scores(state, AllTen)
      after == get_sheet(out.state)
  IN /\ out.status = "success"
     /\ after.ability_scores = DefaultSheet.ability_scores
     /\ after = [sheet_now EXCEPT !.ability_scores = DefaultSheet.ability_scores]
     /\ Truthy(sheet_now.name) /\ Truthy(sheet_now.race) =>
          NextAgent(out.state) = "ability_score_agent"

\* A named Gnome whose later steps are all done and whose scores were chosen:
\* the next step is the validation, and after six scores of 10 are set it is
\* the ability scores again.
C25_Witness ==
  /\ Truthy(sheet_now.name)
  /\ Truthy(sheet_now.race)
  /\ sheet_now.ability_scores # DefaultSheet.ability_scores
  /\ sheet_now.character_class = Some("Wizard")
  /\ Truthy(sheet_now.background)
  /\ Len(sheet_now.spellbook) = 6
  /\ NextAgent(state) = "validation_agent"
  /\ NextAgent(set_ability_scores(state, AllTen).state) = "ability_score_agent"

---------------------------------------------------------------------------
(* C26: the size of the sheet *)

Sizes == {"small", "medium"}

\* C26 as stated: in every reachable state the size of the sheet is unset or
\* one of small and medium.
C26_SizeSmallOrMedium ==
  \A s \in SessionIds :
    LET size == get_sheet(sessions[s]).size
    IN size = None \/ size[1] \in Sizes

\* A named character whose race was set with the size "large": the size is
\* stored and the sequencer has moved on to the ability scores.
C26_Witness ==
  /\ sheet_now.race = Some("Goliath")
  /\ sheet_now.size = Some("large")
  /\ Truthy(sheet_now.name)
  /\ NextAgent(state) = "ability_score_agent"

---------------------------------------------------------------------------
(* C27: no duplicate proficiencies *)

\* Every entry of the skills occurs once, and so does every tool.
ProficienciesOnce(sheet) ==
  /\ \A skill \in BagToSet(sheet.skill_proficiencies) :
       CopiesIn(skill, sheet.skill_proficiencies) = 1
  /\ NoDuplicates(sheet.tool_proficiencies)

\* C27: in every reachable state, and after every further set_class_wizard
\* or set_background call, no skill and no tool is stored twice.
C27_ProficienciesWithoutDuplicates ==
  /\ ProficienciesOnce(sheet_now)
  /\ \A sk \in SkillArgs : ProficienciesOnce(get_sheet(set_class_wizard(state, sk).state))
  /\ \A b \in BackgroundArgs :
       /\ ProficienciesOnce(get_sheet(SetBackgroundWith(state, b).state))
       /\ ProficienciesOnce(
            get_sheet(SetBackgroundWith(SetBackgroundWith(state, b).state, b).state))

\* A Wizard who chose Arcana and History and whose Sage background grants
\* both too: each is stored once, and the tool of the background once even when the
\* background is set again.
C27_Witness ==
  LET again == get_sheet(SetBackgroundWith(state, Sage).state)
  IN /\ sheet_now.character_class = Some("Wizard")
     /\ sheet_now.background = Some("Sage")
     /\ CopiesIn("Arcana", sheet_now.skill_proficiencies) = 1
     /\ CopiesIn("History", sheet_now.skill_proficiencies) = 1
     /\ sheet_now.tool_proficiencies = <<"Calligrapher's Supplies">>
     /\ again.tool_proficiencies = <<"Calligrapher's Supplies">>
     /\ CopiesIn("Arcana", again.skill_proficiencies) = 1

---------------------------------------------------------------------------
(* C28: failures are answered, not raised *)

\* A name no catalogue holds.
Stranger == "Stranger"

\* What a resolver may answer when asked with the names `candidates`, and an
\* answer outside them.
ResolverAnswers(candidates) ==
  {None} \cup {Some(n) : n \in Range(candidates) \cup {Stranger}}

\* The answer `out` of a finder to the query, given what the resolver says
\* for the query among the names `candidates`: failure with a message when
\* the resolver reports nothing, else success with the record of that name.
FinderAnswers(out, query, candidates) ==
  LET match == fuzzy_match(query, candidates)
  IN /\ match \in ResolverAnswers(candidates) \ {Some(Stranger)}
     /\ out.status = (IF match = None THEN "failure" ELSE "success")
     /\ match = None => out.message # None /\ out.result = None
     /\ match # None => out.result # None /\ out.result[1].name = match[1]

\* The finders fault exactly on an answer of the resolver that is none of the
\* names it was given.
FaultOnlyOnForeignName ==
  /\ \A q \in SpellArgs, m \in ResolverAnswers(SpellNames) :
       spell_for_match(q, m).status = "raise"
         <=> m # None /\ m[1] \notin Range(SpellNames)
  /\ \A q \in RaceQueries, m \in ResolverAnswers(all_race_names) :
       race_for_match(q, m).status = "raise"
         <=> m # None /\ m[1] \notin Range(all_race_names)
  /\ \A q \in BackgroundQueries, m \in ResolverAnswers(all_background_names) :
       background_for_match(q, m).status = "raise"
         <=> m # None /\ m[1] \notin Range(all_background_names)

\* C28: every recorded call of a look-up tool is answered with a success or
\* a failure and never raises; find_spell_by_name, find_race_by_name and
\* find_background_by_name fail exactly when the resolver reports no match
\* and otherwise succeed with the record of the resolved name; and a finder
\* faults only on a resolved name that is not among the names it passed.
C28_FailuresAreAnswered ==
  /\ FaultOnlyOnForeignName
  /\ lookup # None =>
       LET call == lookup[1]
       IN /\ call.out.status \in {"success", "failure"}
          /\ call.out.status = "failure" => call.out.message # None
          /\ call.tool = "find_spell_by_name" =>
               FinderAnswers(call.out, call.args[1], SpellNames)
          /\ call.tool = "find_race_by_name" =>
               FinderAnswers(call.out, call.args[1], all_race_names)
          /\ call.tool = "find_background_by_name" =>
               FinderAnswers(call.out, call.args[1], all_background_names)

\* The misspelt "firebll" was looked up and answered with the record of
\* Fireball, while a name that matches nothing is answered with a failure by
\* each finder and a foreign resolved name is a fault.
C28_Witness ==
  /\ lookup # None
  /\ lookup[1].tool = "find_spell_by_name"
  /\ lookup[1].args = <<"firebll">>
  /\ lookup[1].out.status = "success"
  /\ lookup[1].out.result[1].name = "Fireball"
  /\ find_spell_by_name("shield").result[1].name = "Shield"
  /\ find_spell_by_name("NonexistentSpell123").status = "failure"
  /\ find_race_by_name("NonexistentRace123").status = "failure"
  /\ find_race_by_name("elv").result[1].name = "Elf"
  /\ find_background_by_name("NonexistentBackground123").status = "failure"
  /\ find_background_by_name("acolyt").result[1].name = "Acolyte"
  /\ race_for_match("Elf", Some(Stranger)).status = "raise"

---------------------------------------------------------------------------
(* C29: compare_spells fails fast *)

\* The answer `out` of compare_spells to the names a and b: the failure of
\* the look-up of a when a does not resolve, whatever b is; else the failure
\* of the look-up of b; else both records.
ComparesFailFast(out, a, b) ==
  LET first == spell_agent_find_spell_by_name(a)
      second == spell_agent_find_spell_by_name(b)
  IN /\ first.status = "failure" => out = first
     /\ first.status = "success" /\ second.status = "failure" => out = second
     /\ first.status = "success" /\ second.status = "success" =>
          /\ out.status = "success"
          /\ out.result = Some([spell_1 |-> first.result[1],
                                spell_2 |-> second.result[1]])
     /\ out.status = "failure" => out.message[1][2] \in {a, b}
     /\ out.status = "failure" /\ first.status = "failure" => out.message[1][2] = a

\* C29: every recorded compare_spells(A, B) returns the failure of the
\* look-up of A when A does not resolve, saying nothing of B; the failure of
\* the look-up of B when only B does not resolve; and succeeds with spell_1
\* the record of A and spell_2 the record of B when both resolve.
C29_CompareFailsFast ==
  lookup # None /\ lookup[1].tool = "compare_spells" =>
    ComparesFailFast(lookup[1].out, lookup[1].args[1], lookup[1].args[2])

\* Two names that both resolve to nothing were compared and the failure names
\* the first; with the first name resolved and the second not the failure
\* names the second, and two resolved names give both records.
C29_Witness ==
  /\ lookup # None
  /\ lookup[1].tool = "compare_spells"
  /\ lookup[1].args = <<"NonexistentSpell123", "Zzyzx">>
  /\ lookup[1].out.status = "failure"
  /\ lookup[1].out.message = Some(<<"No spell found matching", "NonexistentSpell123">>)
  /\ compare_spells("Fireball", "Zzyzx").message
       = Some(<<"No spell found matching", "Zzyzx">>)
  /\ compare_spells("firebll", "Shield").result[1].spell_1.name = "Fireball"
  /\ compare_spells("firebll", "Shield").result[1].spell_2.name = "Shield"
  /\ compare_spells("Fireball", "Lightning Bolt").result[1].spell_2.name = "Lightning Bolt"

---------------------------------------------------------------------------
(* C30: eager validation of the filters *)

\* The ability names the background records use.
BackgroundAbilities ==
  {"Strength", "Dexterity", "Constitution", "Intelligence", "Wisdom", "Charisma"}

\* The answer is a failure whose message lists the legal values.
FailsListing(out, legal) ==
  /\ out.status = "failure"
  /\ out.message # None
  /\ out.message[1][3] = legal
  /\ out.result = None

\* A filter that is given and is none of the legal values.
Unrecognized(filter, legal) == filter # None /\ filter[1] \notin legal

\* The recorded call of list_spells, list_races or list_races_by_ability with
\* a value outside the enumeration is answered by a failure listing the
\* legal values, whatever the other filters are.
EnumFiltersEager(call) ==
  /\ call.tool = "list_spells" =>
       /\ Unrecognized(call.args[2], Range(School)) => FailsListing(call.out, School)
       /\ Unrecognized(call.args[1], Range(Class))
            => call.out.status = "failure"
               /\ (~Unrecognized(call.args[2], Range(School))
                     => FailsListing(call.out, Class))
  /\ call.tool = "list_races" =>
       /\ Unrecognized(call.args[1], Range(Size)) => FailsListing(call.out, Size)
       /\ Unrecognized(call.args[3], Range(Ability))
            => call.out.status = "failure"
               /\ (~Unrecognized(call.args[1], Range(Size))
                     => FailsListing(call.out, Ability))
  /\ call.tool = "list_races_by_ability" =>
       (call.args[1] \notin Range(Ability) => FailsListing(call.out, Ability))

\* C30 as stated: every recorded list_spells, list_races,
\* list_races_by_ability and list_backgrounds call with a school, class, size
\* or ability outside the enumeration is answered by a failure with a message
\* listing the legal values, whatever the other filters are.
C30_FilterValidationEager ==
  lookup # None =>
    /\ EnumFiltersEager(lookup[1])
    /\ lookup[1].tool = "list_backgrounds"
       /\ Unrecognized(lookup[1].args[1], BackgroundAbilities)
         => lookup[1].out.status = "failure" /\ lookup[1].out.message # None

\* list_backgrounds was called with the ability "luck" and answered success
\* with no record, while list_races answers the size "huge" with a failure
\* listing small and medium.
C30_Witness ==
  /\ lookup # None
  /\ lookup[1].tool = "list_backgrounds"
  /\ lookup[1].args = <<Some("luck"), None>>
  /\ lookup[1].out.status = "success"
  /\ lookup[1].out.result = Some(<<>>)
  /\ FailsListing(list_races(Some("huge"), None, Some("luck")), Size)
  /\ FailsListing(list_spells(Some("artificer"), Some("invalid"), None, None), School)

---------------------------------------------------------------------------
(* C31: listing applies its filters as a conjunction *)

\* Whether the i-th filter of list_spells (class, school, level, max level,
\* ritual, concentration), taken alone, admits the record; an omitted
\* filter admits every record.
SpellAdmits(i, f, spell) ==
  \/ f = None
  \/ i = 1 /\ f[1] \in spell.classes
  \/ i = 2 /\ SchoolOf(spell.name) = f[1]
  \/ i = 3 /\ spell.level = f[1]
  \/ i = 4 /\ spell.level <= f[1]
  \/ i = 5 /\ RitualOf(spell.name) = f[1]
  \/ i = 6 /\ ConcentrationOf(spell.name) = f[1]

\* The same for the filters of list_races (size, darkvision, ability).
RaceAdmits(i, f, race) ==
  \/ f = None
  \/ i = 1 /\ race.size = f[1]
  \/ i = 2 /\ (f[1] <=> race.darkvision # None)
  \/ i = 3 /\ f[1] \in race.abilities

\* The listing names no record twice and keeps the order of the store.
InStoreOrder(result, store) ==
  \A i, j \in DOMAIN result :
    i < j => \E a, b \in DOMAIN store :
               a < b /\ store[a] = result[i] /\ store[b] = result[j]

\* The six filters of a list_spells call of either agent.
SpellFilters(call) ==
  IF call.tool = "list_spells"
  THEN <<call.args[1], call.args[2], None, call.args[3], call.args[4], None>>
  ELSE call.args

SpellListingAgain(call, filters) ==
  IF call.tool = "list_spells"
  THEN list_spells(filters[1], filters[2], filters[4], filters[5])
  ELSE spell_agent_list_spells(filters[1], filters[2], filters[3], filters[4],
                               filters[5], filters[6])

SpellsConjoined(call) ==
  LET filters == SpellFilters(call)
      result == call.out.result[1]
  IN /\ call.out.status = "success"
     /\ Range(result) =
          {Spells[k] : k \in {k \in DOMAIN Spells :
             \A i \in 1..6 : SpellAdmits(i, filters[i], Spells[k])}}
     /\ InStoreOrder(result, Spells)
     /\ \A i \in 1..6 :
          LET wider == SpellListingAgain(call, [filters EXCEPT ![i] = None])
          IN /\ wider.status = "success"
             /\ Range(result) \subseteq Range(wider.result[1])
     /\ (\A i \in 1..6 : filters[i] = None) => result = Spells

RacesConjoined(call) ==
  LET filters == call.args
      result == call.out.result[1]
  IN /\ call.out.status = "success"
     /\ Range(result) =
          {Races[k] : k \in {k \in DOMAIN Races :
             \A i \in 1..3 : RaceAdmits(i, filters[i], Races[k])}}
     /\ InStoreOrder(result, Races)
     /\ \A i \in 1..3 :
          LET f == [filters EXCEPT ![i] = None]
              wider == list_races(f[1], f[2], f[3])
          IN /\ wider.status = "success"
             /\ Range(result) \subseteq Range(wider.result[1])
     /\ (\A i \in 1..3 : filters[i] = None) => result = Races

\* The enumerated filters of the call are all legal values.
FiltersValid(call) ==
  IF call.tool = "list_races"
  THEN /\ call.args[1] # None => call.args[1][1] \in Range(Size)
       /\ call.args[3] # None => call.args[3][1] \in Range(Ability)
  ELSE /\ call.args[1] # None => call.args[1][1] \in Range(Class)
       /\ call.args[2] # None => call.args[2][1] \in Range(School)

\* The call of the spell agent's list_spells with the given filters.
SpellAgentCall(args) ==
  [tool |-> "spell_agent.list_spells", args |-> args,
   out |-> spell_agent_list_spells(args[1], args[2], args[3], args[4], args[5],
                                   args[6])]

\* Every combination of the filter values, absent ones and legal ones.
EveryCombinationConjoined ==
  \A c \in ClassArgs, sc \in SchoolArgs, l \in LevelArgs, m \in MaxLevelArgs,
     r \in RitualArgs, cn \in ConcentrationArgs :
    LET call == SpellAgentCall(<<c, sc, l, m, r, cn>>)
    IN FiltersValid(call) => SpellsConjoined(call)

\* C31: every list_spells call (of either agent) and every list_races call
\* with valid filters succeeds with exactly the records that each supplied
\* filter admits, each once and in store order; dropping a filter never
\* removes a record, and with no filter the whole store is returned.
C31_FiltersConjoin ==
  /\ EveryCombinationConjoined
  /\ lookup # None =>
       LET call == lookup[1]
       IN /\ (call.tool \in {"list_spells", "spell_agent.list_spells"}
              /\ FiltersValid(call)) => SpellsConjoined(call)
          /\ (call.tool = "list_races" /\ FiltersValid(call)) => RacesConjoined(call)

\* list_spells was asked for the wizard evocation spells of level at most 1
\* that are no rituals: Fire Bolt, Light, Magic Missile and Chromatic Orb,
\* fewer than the class filter gives alone.
C31_Witness ==
  /\ lookup # None
  /\ lookup[1].tool = "spell_agent.list_spells"
  /\ lookup[1].args = <<Some("wizard"), Some("evocation"), None, Some(1),
                        Some(FALSE), None>>
  /\ Len(lookup[1].out.result[1]) = 4
  /\ [i \in 1..4 |-> lookup[1].out.result[1][i].name]
       = <<"Fire Bolt", "Light", "Magic Missile", "Chromatic Orb">>
  /\ Len(spell_agent_list_spells(Some("wizard"), None, None, None, None,
                                 None).result[1]) > 4

---------------------------------------------------------------------------
(* C32: the dice roller *)

\* What each notation of DiceNotations says, read by hand: the number of
\* dice, the sides and the signed modifier, or None for a string that is
\* not of the form NdX, NdX+M or NdX-M.  Whitespace around a notation and
\* the case of the d say nothing; a decimal digit of any script is a digit.
Dice(n, x, m) == Some(<<n, x, m>>)

NotationSays(chars) ==
  CASE chars = Codes(<<"2", "d", "6", "+", "1">>) -> Dice(2, 6, 1)
    [] chars = Codes(<<"2", "d", "6", "+", "3">>) -> Dice(2, 6, 3)
    [] chars = Codes(<<"d", "2", "0">>) -> Dice(1, 20, 0)
    [] chars = Codes(<<"3", "d", "4", "-", "2">>) -> Dice(3, 4, -2)
    [] chars = Codes(<<"2", "D", "6">>) -> Dice(2, 6, 0)
    [] chars = Codes(<<"1", "d", "4", "-", "1", "0">>) -> Dice(1, 4, -10)
    [] chars = Codes(<<"1", "2", "d", "1">>) -> Dice(12, 1, 0)
    [] chars = Codes(<<"0", "2", "d", "0", "3">>) -> Dice(2, 3, 0)
    [] chars = Codes(<<"0", "d", "6">>) -> Dice(0, 6, 0)
    [] chars = Codes(<<"2", "d", "0">>) -> Dice(2, 0, 0)
    [] chars = Codes(<<"0", "d", "0", "+", "5">>) -> Dice(0, 0, 5)
    [] chars = Codes(<<" ", "d", "4">>) \o <<10>> -> Dice(1, 4, 0)
    [] chars = Codes(<<"2", "d", "6">>) \o <<13>> -> Dice(2, 6, 0)
    [] chars = <<13>> \o Codes(<<"d", "4">>) -> Dice(1, 4, 0)
    [] chars = Codes(<<"d", "4">>) \o <<12>> -> Dice(1, 4, 0)
    [] chars = <<160>> \o Codes(<<"d", "6">>) -> Dice(1, 6, 0)
    [] chars = <<1634>> \o Codes(<<"d", "6">>) -> Dice(2, 6, 0)
    [] chars = Codes(<<"2", "d">>) \o <<65302>> -> Dice(2, 6, 0)
    [] chars = Codes(<<"2", "d", "6", "+">>) \o <<2409>> -> Dice(2, 6, 3)
    [] chars = <<73554>> \o Codes(<<"d", "6">>) -> Dice(2, 6, 0)
    [] chars = Codes(<<"1", "d">>) \o <<124148>> -> Dice(1, 4, 0)
    [] OTHER -> None

\* The answer of roll_dice to the notation is the one the claim describes.
RollAnswered(chars, out) ==
  LET says == NotationSays(chars)
  IN IF says = None \/ says[1][1] = 0 \/ says[1][2] = 0
     THEN /\ out.status = "failure"
          /\ out.message # None
          /\ out.result = None
          /\ out.rolls = <<>>
     ELSE LET n == says[1][1]
              x == says[1][2]
              m == says[1][3]
          IN /\ out.status = "success"
             /\ Len(out.rolls) = n
             /\ \A i \in DOMAIN out.rolls : out.rolls[i] \in 1..x
             /\ out.result = Some(SumOf(out.rolls) + m)
             /\ n + m <= out.result[1]
             /\ out.result[1] <= n * x + m

\* C32: roll_dice of a notation NdX+M or NdX-M (N absent means 1, M absent
\* means 0) with N and X at least 1 succeeds with the sum of N rolls of
\* 1..X plus M, which lies between N+M and N*X+M; a string that is no such
\* notation, and a notation with N or X equal to 0, fails and nothing is
\* rolled.
C32_RollDiceTotal ==
  (lookup # None /\ lookup[1].tool = "roll_dice")
    => RollAnswered(lookup[1].args[1], lookup[1].out)

\* "2d6+1" rolled 3 and 3 and answered 7.
C32_Witness ==
  /\ lookup # None
  /\ lookup[1].tool = "roll_dice"
  /\ lookup[1].args = <<Codes(<<"2", "d", "6", "+", "1">>)>>
  /\ lookup[1].out.rolls = <<3, 3>>
  /\ lookup[1].out = [status |-> "success", message |-> None, result |-> Some(7),
                      rolls |-> <<3, 3>>]

---------------------------------------------------------------------------
(* C33: a sheet the sequencer calls complete validates *)

\* The validator accepts the stored sheet.
ValidatesClean(st) ==
  LET out == validate_character_sheet(st)
  IN /\ out.status = "success"
     /\ out.result # None
     /\ out.result[1].valid = TRUE

\* The fields of the errors the validator reports for the stored sheet.
ErrorFields(st) ==
  LET out == validate_character_sheet(st)
  IN IF out.status = "success" THEN {}
     ELSE Range(out.result[1].errors)

\* C33: in every reachable state, and after any set_ability_scores call in
\* it, a sheet for which check_next_step reports validation_agent is
\* accepted by validate_character_sheet (success, valid TRUE).
C33_CompleteSheetValidates ==
  /\ NextAgent(state) = "validation_agent" => ValidatesClean(state)
  /\ \A v \in ScoreArgs :
       LET after == set_ability_scores(state, v).state
       IN NextAgent(after) = "validation_agent" => ValidatesClean(after)

\* A complete sheet that validates; set_ability_scores with 7, 9, -3, 7, 31,
\* 0 succeeds on it, the sequencer still reports validation_agent, and the
\* validator rejects the constitution, wisdom and charisma totals.
C33_Witness ==
  LET out == set_ability_scores(state, LowScores)
  IN /\ NextAgent(state) = "validation_agent"
     /\ ValidatesClean(state)
     /\ out.status = "success"
     /\ NextAgent(out.state) = "validation_agent"
     /\ validate_character_sheet(out.state).status = "failure"
     /\ ErrorFields(out.state) =
          {<<"ability_scores", "constitution">>, <<"ability_scores", "wisdom">>,
           <<"ability_scores", "charisma">>}

---------------------------------------------------------------------------
(* C34: the coordinator's loop makes progress *)

ReportsValidation == NextAgent(state) = "validation_agent"

\* The last answer of check_next_step to the coordinator was validation_agent.
ToldValidation == control.told = Some("validation_agent")

\* The validation agent, the final step, has validated the sheet.
FlowEnded == Holds("validation_agent") /\ control.turn = 1

\* C34: in the coordinator's loop, where the agent check_next_step names
\* applies the mutators of that step successfully with legal arguments,
\* the number of mutator calls applied is bounded (at most
\* MutatorCallsAtMost, every spell of the book being prepared);
\* validation_agent is reported only after MutatorCallsNeeded of them at
\* least; until the validation agent has validated, a next step of the
\* instructions can always be taken (the flow is never stuck); once
\* validation_agent is reported it is reported after every further step;
\* and if the coordinator and the agents keep taking the steps of their
\* instructions (the claim's premise, stated as weak fairness of those
\* steps, whatever reads and look-ups come between them), validation_agent
\* is eventually reported to the coordinator and reported from then on.
C34_FlowReachesValidation ==
  /\ [](Applied <= MutatorCallsAtMost)
  /\ [](ReportsValidation => Applied >= MutatorCallsNeeded)
  /\ [](FlowEnded \/ ENABLED OrchestratorProgress)
  /\ [][ReportsValidation => ReportsValidation']_vars
  /\ (WF_vars(OrchestratorProgress) => <>[](ReportsValidation /\ ToldValidation))

\* The coordinator was told validation_agent after 22 mutator calls: with an
\* Intelligence of 18 and the bonus of the Sage all six spells of the book
\* were prepared before the agent transferred back; the cantrips were taken
\* from both ends of the list of legal ones, and the sheet validates.
C34_Witness ==
  /\ ReportsValidation
  /\ ToldValidation
  /\ FlowEnded
  /\ ~ENABLED OrchestratorProgress
  /\ Applied = 22
  /\ Len(sheet_now.prepared_spells) = 6
  /\ "Prestidigitation" \in Range(sheet_now.cantrips_known)
  /\ "Fire Bolt" \in Range(sheet_now.cantrips_known)
  /\ Len(sheet_now.spellbook) = MaxSpellbook
  /\ validate_character_sheet(state).status = "success"

---------------------------------------------------------------------------
(* C35: the sequencer's order guarantees each step's prerequisites *)

\* The step check_next_step reports for the stored sheet can be carried out.
PrerequisitesMet(st) ==
  LET sheet == get_sheet(st)
  IN /\ NextAgent(st) = "spellcasting_agent" =>
          configure_spellcasting(st).status = "success"
     /\ NextAgent(st) = "prepared_spells_agent" =>
          /\ sheet.max_prepared_spells # None
          /\ sheet.max_prepared_spells[1] >= 1
          /\ Len(sheet.spellbook) = 6
          /\ \A i \in DOMAIN sheet.spellbook :
               prepare_spell(st, sheet.spellbook[i]).status = "success"

\* C35: in every reachable state, and in the state any set_ability_scores
\* call followed by configure_spellcasting leaves, a report of
\* spellcasting_agent means configure_spellcasting succeeds, and a report of
\* prepared_spells_agent means max_prepared_spells is set and at least 1,
\* the spellbook holds 6 spells and each of them can be prepared.
C35_PrerequisitesOfReportedStep ==
  /\ PrerequisitesMet(state)
  /\ \A v \in ScoreArgs :
       LET scored == set_ability_scores(state, v).state
       IN /\ PrerequisitesMet(scored)
          /\ PrerequisitesMet(configure_spellcasting(scored).state)

\* prepared_spells_agent is reported, and were the scores 7, 9, -3, 7, 31, 0
\* set and the spellcasting configured again, it would still be reported,
\* with the limit of one prepared spell that the floor gives.
C35_Witness ==
  LET low == configure_spellcasting(set_ability_scores(state, LowScores).state).state
  IN /\ NextAgent(state) = "prepared_spells_agent"
     /\ sheet_now.max_prepared_spells # None
     /\ sheet_now.max_prepared_spells[1] > 1
     /\ NextAgent(low) = "prepared_spells_agent"
     /\ get_sheet(low).max_prepared_spells = Some(1)
     /\ prepare_spell(low, "Magic Missile").status = "success"

---------------------------------------------------------------------------
(* C36: interleaved mutator calls lose an update, serial ones keep both *)

\* The last call that finished, as lookup records it.
LastFinished == lookup[1]

\* Everything old held is held by new, the last call's own field apart: a
\* call other than set_character_name leaves the name, and the cantrips of
\* old are the first cantrips of new.
KeepsChanges(old, new, tool) ==
  /\ tool # "set_character_name" => get_sheet(new).name = get_sheet(old).name
  /\ Len(get_sheet(old).cantrips_known) <= Len(get_sheet(new).cantrips_known)
  /\ SubSeq(get_sheet(new).cantrips_known, 1, Len(get_sheet(old).cantrips_known))
       = get_sheet(old).cantrips_known

\* C36: after a mutator call that reported success, the stored document is
\* the dump of the sheet that call loaded with that call's change alone, so
\* whatever was saved between its load and its save is gone; when nothing
\* was saved in between (the calls ran one after the other), the stored
\* document keeps every earlier change next to the new one (a name is
\* replaced only by a later set_character_name).  A failing call leaves the
\* stored document as it was.
C36_LastSaveWins ==
  lookup # None =>
    LET ran == call_mutator(LastFinished.tool, LastFinished.args[1],
                            LastFinished.out.loaded)
    IN /\ LastFinished.out.status = ran.status
       /\ LastFinished.out.status = "success" => state = ran.state
       /\ LastFinished.out.status = "failure" => state = LastFinished.out.before
       /\ (LastFinished.out.status = "success"
             /\ LastFinished.out.loaded = LastFinished.out.before)
            => KeepsChanges(LastFinished.out.before, state, LastFinished.tool)

\* Both callers loaded the empty session, add_cantrip("Fire Bolt") saved
\* first and add_cantrip("Light") second; both answered success, and the
\* stored sheet knows Light only.
C36_Witness ==
  /\ in_flight[1] # None /\ in_flight[2] # None
  /\ in_flight[1][1].tool = "add_cantrip" /\ in_flight[1][1].arg = "Fire Bolt"
  /\ in_flight[2][1].tool = "add_cantrip" /\ in_flight[2][1].arg = "Light"
  /\ in_flight[1][1].loaded = None /\ in_flight[2][1].loaded = None
  /\ in_flight[1][1].out # None /\ in_flight[1][1].out[1].status = "success"
  /\ in_flight[2][1].out # None /\ in_flight[2][1].out[1].status = "success"
  /\ lookup # None /\ LastFinished.out.caller = 2
  /\ get_sheet(LastFinished.out.before).cantrips_known = <<"Fire Bolt">>
  /\ sheet_now.cantrips_known = <<"Light">>

---------------------------------------------------------------------------
(* C37: the read-only operations leave session storage alone *)

\* The three read-only operations, each run on the stored document st.
ReadOnlyAnswers(st) ==
  {get_character_sheet(st), check_next_step(st), validate_character_sheet(st)}

\* C37: whatever is stored, get_character_sheet, check_next_step and
\* validate_character_sheet leave it as it is; on a session without a sheet
\* nothing is stored afterwards either, get_character_sheet answers the
\* default sheet with name and race unset, and the other two answer as for
\* that default sheet.
C37_ReadOnlyFrame ==
  /\ \A out \in ReadOnlyAnswers(state) : out.state = state
  /\ \A out \in ReadOnlyAnswers(None) : out.state = None
  /\ get_character_sheet(None).result = Some(model_dump(DefaultSheet))
  /\ get_character_sheet(None).result[1].name = None
  /\ get_character_sheet(None).result[1].race = None
  /\ Returned(check_next_step(None))
       = Returned(check_next_step(save_sheet(DefaultSheet)))
  /\ Returned(validate_character_sheet(None))
       = Returned(validate_character_sheet(save_sheet(DefaultSheet)))

\* A sheet with a name and a race is stored and read back unchanged, while
\* a session without a sheet still reads as the default sheet and stores
\* nothing.
C37_Witness ==
  /\ state # None
  /\ get_character_sheet(state).result[1].name = Some("Fizban")
  /\ get_character_sheet(state).result[1].race # None
  /\ get_character_sheet(state).state = state
  /\ validate_character_sheet(state).state = state
  /\ check_next_step(state).state = state
  /\ get_character_sheet(None).state = None
  /\ get_character_sheet(None).status = "success"

---------------------------------------------------------------------------
(* C38: there is no undo *)

\* The sequence old is the beginning of the sequence new.
BeginsWith(new, old) ==
  /\ Len(old) <= Len(new)
  /\ SubSeq(new, 1, Len(old)) = old

\* The fields that, once set, are to stay set.
StickyFields ==
  {"character_class", "spellcasting_ability", "max_prepared_spells", "max_hp",
   "armor_class"}

\* From the sheet old to the sheet new nothing is taken back.
NothingUndone(old, new) ==
  /\ BeginsWith(new.cantrips_known, old.cantrips_known)
  /\ BeginsWith(new.spellbook, old.spellbook)
  /\ BeginsWith(new.prepared_spells, old.prepared_spells)
  /\ \A f \in StickyFields : old[f] # None => new[f] # None

\* C38: in every step of every sequence of operations, cantrips_known,
\* spellbook and prepared_spells before the step are the beginning of the
\* lists after it, and none of character_class, spellcasting_ability,
\* max_prepared_spells, max_hp and armor_class goes from set to unset.
C38_NoUndo == [][NothingUndone(get_sheet(state), get_sheet(state'))]_vars

\* Each of the three lists has grown twice and all five fields are set.
C38_Witness ==
  /\ Len(sheet_now.cantrips_known) >= 2
  /\ Len(sheet_now.spellbook) >= 2
  /\ Len(sheet_now.prepared_spells) >= 2
  /\ \A f \in StickyFields : sheet_now[f] # None

---------------------------------------------------------------------------
(* C39: the two class skills of set_class_wizard *)

\* The distinct wizard class skills among the skill proficiencies of st.
ClassSkillsOf(st) ==
  BagToSet(get_sheet(st).skill_proficiencies) \cap Range(valid_wizard_skills)

\* C39: whatever the stored sheet, every set_class_wizard call that answers
\* success leaves at least two distinct wizard class skills among the skill
\* proficiencies, and a list that names one skill twice is not answered with
\* success.
C39_TwoDistinctClassSkills ==
  \A sk \in SkillArgs :
    LET out == set_class_wizard(state, sk)
    IN out.status = "success" =>
         /\ Cardinality(ClassSkillsOf(out.state)) >= 2
         /\ Cardinality(Range(sk)) = 2

\* A sheet without a wizard class skill on which
\* set_class_wizard(["Arcana", "Arcana"]) answers success and leaves Arcana
\* as the only class skill.
C39_Witness ==
  /\ state # None
  /\ ClassSkillsOf(state) = {}
  /\ set_class_wizard(state, <<"Arcana", "Arcana">>).status = "success"
  /\ ClassSkillsOf(set_class_wizard(state, <<"Arcana", "Arcana">>).state) = {"Arcana"}
  /\ get_sheet(set_class_wizard(state, <<"Arcana", "Arcana">>).state).character_class
       = Some("Wizard")

====
